---- MODULE Spec2Model ----
(***************************************************************************)
(* A model of the agent simulation engine of ball-eating-simulator:        *)
(* Ball (src/src/Ball.js), PowerUpEffects (src/unnamed/part_002),          *)
(* PowerUpManager (src/src/PowerUp.js), BallAI (src/src/BallAI.js) and the *)
(* Game loop (src/src/game.js).                                            *)
(*                                                                         *)
(* Numbers.  The program computes in IEEE doubles; the model computes in   *)
(* integers:                                                               *)
(*  - a radius is held as its cube, r3 = radius^3 * VolDen, so that        *)
(*    Math.pow(radius, 3), "* 0.5" and Math.cbrt are exact (real           *)
(*    arithmetic; the doubles' last-bit rounding is not modelled);         *)
(*  - positions and velocities are fixed point, PosScale units per world   *)
(*    unit, every quotient rounded toward zero;                            *)
(*  - where a radius enters geometry (position.y, the collision distance)  *)
(*    it is the radius rounded down to a tenth of a world unit.            *)
(***************************************************************************)
EXTENDS Integers, Sequences, FiniteSets, TLC

VARIABLES
    \* Game (src/src/game.js)
    player, enemies, score, gameOver, lastSpawnTime,
    \* the wall clock read by Date.now(), the id source, and the record of
    \* the last operation: which it was, what its collision pass and spawn
    \* control did, the state at the fatal collision, and the state before it
    now, nextId, op, log, fatal, before, steps,
    \* two balls and the result of the last Ball method applied to them
    ba, bb, bout, bsteps,
    \* PowerUpManager / PowerUpEffects
    activePowerUps, speedMultiplier, puClock, puNextId, puLast, puSteps,
    \* the PowerUp objects update() has removed, as it left them
    puRemoved,
    \* two scores and the results of the last utils.js function applied to them
    us1, us2, uout

gameVars == <<player, enemies, score, gameOver, lastSpawnTime, now, nextId, op, log, fatal, before, steps>>
ballVars == <<ba, bb, bout, bsteps>>
puVars == <<activePowerUps, speedMultiplier, puClock, puNextId, puLast, puSteps, puRemoved>>
utilVars == <<us1, us2, uout>>
vars == <<gameVars, ballVars, puVars, utilVars>>

----------------------------------------------------------------------------
(* Units and integer arithmetic *)

\* r3 = radius^3 * VolDen: room for eight successive halvings of a volume
VolDen == 2 * 128
\* fixed-point units per world unit (positions, velocities, forces)
PosScale == 10 * 10

Abs(n) == IF n < 0 THEN -n ELSE n

Sign(n) == IF n < 0 THEN -1 ELSE IF n > 0 THEN 1 ELSE 0

\* a / b rounded toward zero, b > 0
TruncDiv(a, b) == IF a >= 0 THEN a \div b ELSE -((-a) \div b)

RECURSIVE CbrtSearch(_, _, _)
\* the p in lo..hi-1 with p^3 <= n < (p+1)^3, given lo^3 <= n < hi^3
CbrtSearch(n, lo, hi) ==
    IF hi - lo <= 1 THEN lo
    ELSE LET mid == (lo + hi) \div 2
         IN  IF mid * mid * mid <= n THEN CbrtSearch(n, mid, hi)
             ELSE CbrtSearch(n, lo, mid)

\* floor of the cube root of n, 0 <= n < 1290^3
ICbrt(n) == CbrtSearch(n, 0, 1290)

RECURSIVE SqrtSearch(_, _, _)
SqrtSearch(n, lo, hi) ==
    IF hi - lo <= 1 THEN lo
    ELSE LET mid == (lo + hi) \div 2
         IN  IF mid * mid <= n THEN SqrtSearch(n, mid, hi)
             ELSE SqrtSearch(n, lo, mid)

\* floor of the square root of n, 0 <= n < 46340^2
ISqrt(n) == SqrtSearch(n, 0, 46340)

\* ceiling of the square root of n
ISqrtUp(n) == LET s == ISqrt(n) IN IF s * s = n THEN s ELSE s + 1

----------------------------------------------------------------------------
(* Ball (src/src/Ball.js) *)

\* new Ball(x, y, z, radius, ...): velocity 0, baseRadius = radius, mass 1, and
\* a new PowerUpEffects with speedMultiplier 1 and no target radius.
\* r3 is radius^3 * VolDen; mass is the fraction massNum / massDen.
NewBall(id, x, y, z, r3, isPlayer) ==
    [id |-> id, isPlayer |-> isPlayer,
     x |-> x, y |-> y, z |-> z, vx |-> 0, vy |-> 0, vz |-> 0,
     r3 |-> r3, base3 |-> r3, massNum |-> 1, massDen |-> 1,
     speedMultiplier |-> 1]

\* stands where there is no ball
NoBall == NewBall(0, 0, 0, 0, 0, FALSE)

\* Math.floor(radius * 10): the p with p^3 <= 1000 * radius^3 < (p+1)^3
RadiusTenths(r3) == ICbrt((125 * r3) \div (VolDen \div 8))

\* the radius in position units, as geometry sees it
RadiusPos(ball) == RadiusTenths(ball.r3) * (PosScale \div 10)

CanEatWrongTie(self, other) == self.r3 >= other.r3

\* canEat: this.radius > otherBall.radius * 1.0 (cubing keeps the order)
canEat(self, other) == self.r3 > other.r3

\* grow(amount), the amount given by the radius it leads to: radius += amount,
\* mass = (radius / baseRadius)^3 with the old baseRadius, then baseRadius = radius
grow(self, newR3) ==
    [self EXCEPT !.r3 = newR3, !.massNum = newR3, !.massDen = self.base3,
                 !.base3 = newR3]

EatFullVolume(self, other) ==
    [self |-> grow(self, self.r3 + other.r3), other |-> other,
     points |-> RadiusTenths(other.r3)]

EatPointsOfEater(self, other) ==
    [self |-> grow(self, self.r3 + other.r3 \div 2), other |-> other,
     points |-> RadiusTenths(self.r3)]

\* eat(otherBall): the eater afterwards, the eaten ball as eat leaves it, and
\* the points returned
eat(self, other) ==
    LET volumeGained == other.r3 \div 2
        newVolume == self.r3 + volumeGained
    IN  [self |-> grow(self, newVolume), other |-> other,
         points |-> RadiusTenths(other.r3)]

\* the greatest distance the code compares a distance with (idealTargetRange);
\* every radius sum stays below it
FarLimit == 100 * PosScale

\* distanceTo(otherBall)^2 in position units; one value, above every range,
\* stands for the distances beyond FarLimit
Dist2(a, b) ==
    LET dx == a.x - b.x
        dy == a.y - b.y
        dz == a.z - b.z
    IN  IF Abs(dx) > FarLimit \/ Abs(dy) > FarLimit \/ Abs(dz) > FarLimit
        THEN (FarLimit + 1) * (FarLimit + 1)
        ELSE dx * dx + dy * dy + dz * dz

\* isColliding: distanceTo(otherBall) < this.radius + otherBall.radius
isColliding(self, other) ==
    LET d2 == Dist2(self, other)
        reach == RadiusPos(self) + RadiusPos(other)
    IN  d2 <= FarLimit * FarLimit /\ d2 < reach * reach

\* v.normalize().multiplyScalar(len) for the vector (x, y, z); the zero
\* vector stays zero
ScaledTo(x, y, z, len) ==
    LET n2 == x * x + y * y + z * z
        n == ISqrtUp(n2)
    IN  IF n2 = 0 THEN [x |-> 0, y |-> 0, z |-> 0]
        ELSE [x |-> TruncDiv(x * len, n), y |-> TruncDiv(y * len, n),
              z |-> TruncDiv(z * len, n)]

ApplyForceNoLimit(self, fx, fy, fz) ==
    LET m == self.speedMultiplier
    IN  [self EXCEPT !.vx = self.vx + fx * m, !.vy = self.vy + fy * m,
                     !.vz = self.vz + fz * m]

\* applyForce(force): the force times speedMultiplier is added to the velocity,
\* which is then cut to baseMaxSpeed * speedMultiplier
applyForce(self, fx, fy, fz) ==
    LET m == self.speedMultiplier
        vx == self.vx + fx * m
        vy == self.vy + fy * m
        vz == self.vz + fz * m
        baseMaxSpeed == IF self.isPlayer THEN 30 * PosScale ELSE 20 * PosScale
        maxSpeed == baseMaxSpeed * m
    IN  IF vx * vx + vy * vy + vz * vz > maxSpeed * maxSpeed
        THEN LET c == ScaledTo(vx, vy, vz, maxSpeed)
             IN  [self EXCEPT !.vx = c.x, !.vy = c.y, !.vz = c.z]
        ELSE [self EXCEPT !.vx = vx, !.vy = vy, !.vz = vz]

\* applyPhysics(deltaTime): damping, the ball rests at y = radius (no code
\* sets isJumping), and the boundary at 250
applyPhysics(self) ==
    LET damp == IF self.isPlayer THEN 97 ELSE 95
        vx == TruncDiv(self.vx * damp, 100)
        vy == TruncDiv(self.vy * damp, 100)
        vz == TruncDiv(self.vz * damp, 100)
        boundaryLimit == 250 * PosScale
        outX == Abs(self.x) > boundaryLimit
        outZ == Abs(self.z) > boundaryLimit
    IN  [self EXCEPT
            !.y = RadiusPos(self),
            !.x = IF outX THEN Sign(self.x) * boundaryLimit ELSE self.x,
            !.vx = IF outX THEN -TruncDiv(vx * 8, 10) ELSE vx,
            !.vy = vy,
            !.z = IF outZ THEN Sign(self.z) * boundaryLimit ELSE self.z,
            !.vz = IF outZ THEN -TruncDiv(vz * 8, 10) ELSE vz]

\* Ball.update(deltaTime) with deltaTime = 1/60: applyPhysics, then the
\* horizontal velocity is integrated.  updateSizeAnimation changes nothing
\* while the ball has no target radius.
BallUpdate(self) ==
    LET b == applyPhysics(self)
    IN  [b EXCEPT !.x = b.x + TruncDiv(b.vx, 60), !.z = b.z + TruncDiv(b.vz, 60)]

----------------------------------------------------------------------------
(* BallAI (src/src/BallAI.js); a scan returns an index of allBalls, 0 for null *)

threatRange == 60 * PosScale
idealTargetRange == 100 * PosScale
seekForce == (22 * PosScale) \div 10
avoidForce == 2 * PosScale
randomForce == PosScale

RECURSIVE ThreatScan(_, _, _, _, _)
\* the loop of findNearestThreat from index i on
ThreatScan(ball, allBalls, i, nearestThreat, nearestDistance2) ==
    IF i > Len(allBalls) THEN nearestThreat
    ELSE LET other == allBalls[i]
             d2 == Dist2(ball, other)
         IN  IF other.id = ball.id \/ ~canEat(other, ball)
             THEN ThreatScan(ball, allBalls, i + 1, nearestThreat, nearestDistance2)
             ELSE IF (nearestThreat = 0 \/ d2 < nearestDistance2)
                      /\ d2 < threatRange * threatRange
                  THEN ThreatScan(ball, allBalls, i + 1, i, d2)
                  ELSE ThreatScan(ball, allBalls, i + 1, nearestThreat, nearestDistance2)

findNearestThreat(ball, allBalls) == ThreatScan(ball, allBalls, 1, 0, 0)

RECURSIVE TargetScan(_, _, _, _, _)
\* the loop of findIdealTarget from index i on; largestEatableSize is the
\* radius of idealTarget (0 while there is none), and two radii count as
\* within 0.1 when they round down to the same tenth
TargetScan(ball, allBalls, i, idealTarget, shortestDistance2) ==
    IF i > Len(allBalls) THEN idealTarget
    ELSE LET other == allBalls[i]
             d2 == Dist2(ball, other)
         IN  IF other.id = ball.id \/ ~canEat(ball, other)
             THEN TargetScan(ball, allBalls, i + 1, idealTarget, shortestDistance2)
             ELSE IF d2 > idealTargetRange * idealTargetRange
             THEN TargetScan(ball, allBalls, i + 1, idealTarget, shortestDistance2)
             ELSE IF \/ idealTarget = 0
                     \/ other.r3 > allBalls[idealTarget].r3
                     \/ /\ RadiusTenths(other.r3) = RadiusTenths(allBalls[idealTarget].r3)
                        /\ d2 < shortestDistance2
             THEN TargetScan(ball, allBalls, i + 1, i, d2)
             ELSE TargetScan(ball, allBalls, i + 1, idealTarget, shortestDistance2)

findIdealTarget(ball, allBalls) == TargetScan(ball, allBalls, 1, 0, 0)

\* avoidThreat: a push of avoidForce along ball.position - threat.position
avoidThreat(ball, threat) ==
    LET f == ScaledTo(ball.x - threat.x, ball.y - threat.y, ball.z - threat.z, avoidForce)
    IN  applyForce(ball, f.x, f.y, f.z)

\* seekTarget: a push of seekForce along target.position - ball.position
seekTarget(ball, target) ==
    LET f == ScaledTo(target.x - ball.x, target.y - ball.y, target.z - ball.z, seekForce)
    IN  applyForce(ball, f.x, f.y, f.z)

\* randomWalk with the two Math.random() draws u, w given in hundredths
randomWalk(ball, u, w) ==
    applyForce(ball, ((u - 50) * randomForce) \div 100, 0, ((w - 50) * randomForce) \div 100)

----------------------------------------------------------------------------
(* utils.js *)

Max(a, b) == IF a >= b THEN a ELSE b

Min(a, b) == IF a <= b THEN a ELSE b

CalculateSpawnRateNoFloor(sc) ==
    LET baseRate == 2000
        scoreFactor == sc \div 100
    IN  baseRate - scoreFactor * 100

\* calculateSpawnRate(score), in ms
calculateSpawnRate(sc) ==
    LET baseRate == 2000
        minRate == 500
        scoreFactor == sc \div 100
    IN  Max(minRate, baseRate - scoreFactor * 100)

CalculateMaxEnemiesNoCap(sc) ==
    LET baseMax == 50
        increment == sc \div 200
    IN  baseMax + increment

\* calculateMaxEnemies(score)
calculateMaxEnemies(sc) ==
    LET baseMax == 50
        increment == sc \div 200
    IN  Min(baseMax + increment, 100)

----------------------------------------------------------------------------
(* Game (src/src/game.js): the collision pass *)

\* array.splice(i, 1)
RemoveAt(list, i) == SubSeq(list, 1, i - 1) \o SubSeq(list, i + 1, Len(list))

\* what one comparison of the collision pass, or the spawn control, did
Event(kind, eater, eaten, points) ==
    [kind |-> kind, eater |-> eater.id, eaten |-> eaten.id,
     eaterR3 |-> eater.r3, eatenR3 |-> eaten.r3, points |-> points]

\* no fatal collision since the last (re)start
NoFatal == [hit |-> FALSE, player |-> NoBall, enemy |-> NoBall,
            enemies |-> <<>>, score |-> 0]

\* endGame(), called for the collision with enemy, and the return that
\* follows it: gameOver = true; fatal keeps the state at that instant
endGame(p, es, sc, lg, enemy) ==
    [player |-> p, enemies |-> es, score |-> sc, gameOver |-> TRUE,
     log |-> Append(lg, Event("fatal", enemy, p, 0)),
     fatal |-> [hit |-> TRUE, player |-> p, enemy |-> enemy,
                enemies |-> es, score |-> sc]]

RECURSIVE PlayerLoopTieIsFatal(_, _, _, _, _)
PlayerLoopTieIsFatal(p, es, i, sc, lg) ==
    IF i < 1
    THEN [player |-> p, enemies |-> es, score |-> sc, gameOver |-> FALSE,
          log |-> lg, fatal |-> NoFatal]
    ELSE LET enemy == es[i]
         IN  IF ~isColliding(p, enemy) THEN PlayerLoopTieIsFatal(p, es, i - 1, sc, lg)
             ELSE IF canEat(p, enemy)
             THEN LET r == eat(p, enemy)
                  IN  PlayerLoopTieIsFatal(r.self, RemoveAt(es, i), i - 1, sc + r.points,
                                 Append(lg, Event("playerEat", p, enemy, r.points)))
             ELSE endGame(p, es, sc, lg, enemy)

RECURSIVE PlayerLoop(_, _, _, _, _)
\* the player-vs-enemies loop from index i down
PlayerLoop(p, es, i, sc, lg) ==
    IF i < 1
    THEN [player |-> p, enemies |-> es, score |-> sc, gameOver |-> FALSE,
          log |-> lg, fatal |-> NoFatal]
    ELSE LET enemy == es[i]
         IN  IF ~isColliding(p, enemy) THEN PlayerLoop(p, es, i - 1, sc, lg)
             ELSE IF canEat(p, enemy)
             THEN LET r == eat(p, enemy)
                  IN  PlayerLoop(r.self, RemoveAt(es, i), i - 1, sc + r.points,
                                 Append(lg, Event("playerEat", p, enemy, r.points)))
             ELSE IF canEat(enemy, p) THEN endGame(p, es, sc, lg, enemy)
             ELSE PlayerLoop(p, es, i - 1, sc,
                             Append(lg, Event("playerTie", p, enemy, 0)))

RECURSIVE InnerLoopKeepsEaten(_, _, _, _)
InnerLoopKeepsEaten(es, i, j, lg) ==
    IF j < 1 THEN [enemies |-> es, i |-> i, log |-> lg]
    ELSE LET enemy == es[i]
             otherEnemy == es[j]
         IN  IF ~isColliding(enemy, otherEnemy) THEN InnerLoopKeepsEaten(es, i, j - 1, lg)
             ELSE IF canEat(enemy, otherEnemy)
             THEN LET r == eat(enemy, otherEnemy)
                  IN  InnerLoopKeepsEaten([es EXCEPT ![i] = r.self], i, j - 1,
                                Append(lg, Event("enemyEat", enemy, otherEnemy, r.points)))
             ELSE IF canEat(otherEnemy, enemy)
             THEN LET r == eat(otherEnemy, enemy)
                  IN  [enemies |-> RemoveAt([es EXCEPT ![j] = r.self], i), i |-> i,
                       log |-> Append(lg, Event("enemyEat", otherEnemy, enemy, r.points))]
             ELSE InnerLoopKeepsEaten(es, i, j - 1,
                            Append(lg, Event("enemyTie", enemy, otherEnemy, 0)))

RECURSIVE InnerLoop(_, _, _, _)
\* the inner loop over j for the enemy at index i: the enemies, the index of
\* that enemy (or of its place, when it was eaten) and the log afterwards
InnerLoop(es, i, j, lg) ==
    IF j < 1 THEN [enemies |-> es, i |-> i, log |-> lg]
    ELSE LET enemy == es[i]
             otherEnemy == es[j]
         IN  IF ~isColliding(enemy, otherEnemy) THEN InnerLoop(es, i, j - 1, lg)
             ELSE IF canEat(enemy, otherEnemy)
             THEN LET r == eat(enemy, otherEnemy)
                  IN  InnerLoop(RemoveAt([es EXCEPT ![i] = r.self], j), i - 1, j - 1,
                                Append(lg, Event("enemyEat", enemy, otherEnemy, r.points)))
             ELSE IF canEat(otherEnemy, enemy)
             THEN LET r == eat(otherEnemy, enemy)
                  IN  [enemies |-> RemoveAt([es EXCEPT ![j] = r.self], i), i |-> i,
                       log |-> Append(lg, Event("enemyEat", otherEnemy, enemy, r.points))]
             ELSE InnerLoop(es, i, j - 1,
                            Append(lg, Event("enemyTie", enemy, otherEnemy, 0)))

RECURSIVE OuterLoop(_, _, _)
\* the enemy-vs-enemy loop from index i down
OuterLoop(es, i, lg) ==
    IF i < 1 THEN [enemies |-> es, log |-> lg]
    ELSE LET r == InnerLoop(es, i, i - 1, lg)
         IN  OuterLoop(r.enemies, r.i - 1, r.log)

RECURSIVE SumPoints(_)
\* the points of a sequence of events, added up
SumPoints(events) ==
    IF events = <<>> THEN 0 ELSE Head(events).points + SumPoints(Tail(events))

CheckCollisionsScoresEnemyEats(p, es, sc) ==
    LET first == PlayerLoop(p, es, Len(es), sc, <<>>)
    IN  IF first.gameOver THEN first
        ELSE LET second == OuterLoop(first.enemies, Len(first.enemies), first.log)
             IN  [first EXCEPT !.enemies = second.enemies, !.log = second.log,
                               !.score = sc + SumPoints(second.log)]

\* checkCollisions(), called with gameOver false and a player
checkCollisions(p, es, sc) ==
    LET first == PlayerLoop(p, es, Len(es), sc, <<>>)
    IN  IF first.gameOver THEN first
        ELSE LET second == OuterLoop(first.enemies, Len(first.enemies), first.log)
             IN  [first EXCEPT !.enemies = second.enemies, !.log = second.log]

----------------------------------------------------------------------------
(* Game: the population.  Math.random() is an input: a (re)start draws one  *)
(* of the streams Seeds, a frame one of its inputs' streams, and a stream   *)
(* fixes every draw made from it.  Positions are drawn in whole world       *)
(* units, sizes as radius^3 in whole cubic units.                           *)

\* the streams a construction or restart draws from
Seeds == 1..3

\* the player's radius, and the sizes of the initial population
PlayerRadius == 15
NumBigEnemies == 4
NumSmallEnemies == 40

\* randomPosition(150) and randomSize(16, 25) for the k-th big enemy
BigDraw(seed, k) ==
    IF seed = 2 /\ k = 1 THEN [x |-> 30, z |-> 0, vol |-> 20 * 20 * 20]
    ELSE IF seed = 3 /\ k = 1 THEN [x |-> 30, z |-> 0, vol |-> 16 * 16 * 16]
    ELSE IF seed = 1 /\ k = 1 THEN [x |-> 12, z |-> -25, vol |-> 16 * 16 * 16]
    ELSE [x |-> IF k \in {1, 2} THEN -120 ELSE 120,
          z |-> IF k \in {1, 3} THEN -120 ELSE 120,
          vol |-> 16 * 16 * 16 + ((k * 1700 + seed * 900) % 11500)]

\* randomPosition(200) and randomSize(1, 8) for the k-th small enemy
SmallDraw(seed, k) ==
    IF seed \in {1, 2} /\ k = 40 THEN [x |-> 20, z |-> 0, vol |-> 343]
    ELSE IF seed = 3 /\ k = 40 THEN [x |-> 20, z |-> 0, vol |-> 500]
    ELSE IF seed = 3 /\ k = 39 THEN [x |-> -20, z |-> 0, vol |-> 500]
    ELSE IF seed = 3 /\ k = 38 THEN [x |-> 0, z |-> 20, vol |-> 442]
    ELSE IF k = 1 THEN [x |-> -190, z |-> -150, vol |-> 125]
    ELSE IF k = 2 THEN [x |-> -187, z |-> -150, vol |-> 27]
    ELSE IF k = 3 THEN [x |-> -106, z |-> -150, vol |-> 64]
    ELSE IF k = 4 THEN [x |-> -104, z |-> -150, vol |-> 216]
    ELSE IF k = 5 THEN [x |-> -22, z |-> -150, vol |-> 125]
    ELSE IF k = 6 THEN [x |-> -19, z |-> -150, vol |-> 125]
    ELSE IF k = 7 THEN [x |-> 7, z |-> -11, vol |-> 8]
    ELSE IF k \in 8..10
    THEN [x |-> 104 + 2 * (k - 8), z |-> -150,
          vol |-> IF seed = 3 THEN <<27, 64, 216>>[k - 7] ELSE <<216, 27, 64>>[k - 7]]
    ELSE [x |-> -190 + 42 * ((k - 1) % 10),
          z |-> -150 + 100 * ((k - 1) \div 10),
          vol |-> 1 + ((k * 97 + seed * 31) % 500)]

\* randomPosition(200) and randomSize(1, 8) of a spawn in a frame
SpawnDraw(rnd, id) ==
    [x |-> ((id * 73 + rnd * 11) % 400) - 200,
     z |-> ((id * 139 + rnd * 7) % 400) - 200,
     vol |-> 1 + ((id * 57 + rnd * 3) % 500)]

\* the Math.random() < 0.2 draw and the two draws of randomWalk for the k-th
\* enemy of a frame, in hundredths
WalkDraw(rnd, k) ==
    [chance |-> (rnd * 37 + k * 61) % 100,
     u |-> (rnd * 53 + k * 29) % 100,
     w |-> (rnd * 17 + k * 43) % 100]

\* createPlayer(): a ball of radius 15 at the origin, isPlayer set
createPlayer(id) ==
    NewBall(id, 0, 0, 0, PlayerRadius * PlayerRadius * PlayerRadius * VolDen, TRUE)

\* one big enemy of spawnInitialEnemies, from its draws
BigEnemy(d, id) ==
    LET near == Abs(d.x) < 30 /\ Abs(d.z) < 30
        x == IF near THEN (IF d.x < 0 THEN d.x - 30 ELSE d.x + 30) ELSE d.x
        z == IF near THEN (IF d.z < 0 THEN d.z - 30 ELSE d.z + 30) ELSE d.z
    IN  NewBall(id, x * PosScale, 0, z * PosScale, d.vol * VolDen, FALSE)

\* spawnEnemy(), from its draws: the ball pushed onto this.enemies
spawnEnemy(d, id) ==
    LET near == Abs(d.x) < 20 /\ Abs(d.z) < 20
        x == IF near THEN (IF d.x < 0 THEN d.x - 20 ELSE d.x + 20) ELSE d.x
        z == IF near THEN (IF d.z < 0 THEN d.z - 20 ELSE d.z + 20) ELSE d.z
    IN  NewBall(id, x * PosScale, 0, z * PosScale, d.vol * VolDen, FALSE)

\* spawnInitialEnemies(): 4 big enemies, then 40 calls of spawnEnemy; the
\* ids are id0 + 1 onwards
spawnInitialEnemies(seed, id0) ==
    [k \in 1..(NumBigEnemies + NumSmallEnemies) |->
        IF k <= NumBigEnemies THEN BigEnemy(BigDraw(seed, k), id0 + k)
        ELSE spawnEnemy(SmallDraw(seed, k - NumBigEnemies), id0 + k)]

----------------------------------------------------------------------------
(* Game: one frame *)

\* handleInput() with gameOver false: force is 2.0 along the camera's forward
\* direction while a key or touch asks for it; ctl is that push, <<0, 0>> for none
handleInput(p, ctl) ==
    IF ctl = <<0, 0>> THEN p ELSE applyForce(p, ctl[1], 0, ctl[2])

AIStepHuntFirst(enemy, allBalls, d) ==
    LET nearestThreat == findNearestThreat(enemy, allBalls)
        idealTarget == findIdealTarget(enemy, allBalls)
    IN  IF idealTarget # 0 THEN seekTarget(enemy, allBalls[idealTarget])
        ELSE IF nearestThreat # 0 THEN avoidThreat(enemy, allBalls[nearestThreat])
        ELSE IF d.chance < 20 THEN randomWalk(enemy, d.u, d.w)
        ELSE enemy

\* the body of updateAI's forEach for one enemy, d its random draws
AIStep(enemy, allBalls, d) ==
    LET nearestThreat == findNearestThreat(enemy, allBalls)
        idealTarget == findIdealTarget(enemy, allBalls)
    IN  IF nearestThreat # 0 THEN avoidThreat(enemy, allBalls[nearestThreat])
        ELSE IF idealTarget # 0 THEN seekTarget(enemy, allBalls[idealTarget])
        ELSE IF d.chance < 20 THEN randomWalk(enemy, d.u, d.w)
        ELSE enemy

\* updateAI(): the enemies afterwards (a force changes a velocity only, so
\* every enemy decides on the same positions and radii)
updateAI(p, es, rnd) ==
    CHOOSE after \in {[k \in DOMAIN es |-> AIStep(es[k], allBalls, WalkDraw(rnd, k))] :
                         allBalls \in {<<p>> \o es}} : TRUE

SpawnEnemiesNoCap(es, sc, last, t, rnd, id) ==
    LET spawnRate == calculateSpawnRate(sc)
    IN  IF t - last > spawnRate
        THEN LET new == spawnEnemy(SpawnDraw(rnd, id), id)
             IN  [enemies |-> Append(es, new), lastSpawnTime |-> t, nextId |-> id + 1,
                  log |-> <<Event("spawn", new, new, 0)>>]
        ELSE [enemies |-> es, lastSpawnTime |-> last, nextId |-> id, log |-> <<>>]

SpawnEnemiesNotStrict(es, sc, last, t, rnd, id) ==
    LET spawnRate == calculateSpawnRate(sc)
        maxEnemies == calculateMaxEnemies(sc)
    IN  IF t - last >= spawnRate /\ Len(es) < maxEnemies
        THEN LET new == spawnEnemy(SpawnDraw(rnd, id), id)
             IN  [enemies |-> Append(es, new), lastSpawnTime |-> t, nextId |-> id + 1,
                  log |-> <<Event("spawn", new, new, 0)>>]
        ELSE [enemies |-> es, lastSpawnTime |-> last, nextId |-> id, log |-> <<>>]

\* spawnEnemies() at Date.now() = t
spawnEnemies(es, sc, last, t, rnd, id) ==
    LET spawnRate == calculateSpawnRate(sc)
        maxEnemies == calculateMaxEnemies(sc)
    IN  IF t - last > spawnRate /\ Len(es) < maxEnemies
        THEN LET new == spawnEnemy(SpawnDraw(rnd, id), id)
             IN  [enemies |-> Append(es, new), lastSpawnTime |-> t, nextId |-> id + 1,
                  log |-> <<Event("spawn", new, new, 0)>>]
        ELSE [enemies |-> es, lastSpawnTime |-> last, nextId |-> id, log |-> <<>>]

\* how many frames and restarts a run holds
MaxSteps == 3

\* Date.now() when the game is constructed: as in the program, later than
\* every spawn rate after lastSpawnTime = 0
StartTime == 100 * 1000

\* what a frame is given: the push asked of the player, the ms since the
\* frame before, and the stream of its Math.random() draws
FrameInputs ==
    {[ctl |-> <<0, 0>>, dt |-> 16, rnd |-> 1],
     [ctl |-> <<0, -2 * PosScale>>, dt |-> 16, rnd |-> 2],
     [ctl |-> <<0, 0>>, dt |-> 2100, rnd |-> 2],
     [ctl |-> <<2 * PosScale, 0>>, dt |-> 2100, rnd |-> 1]}

\* the game's fields, as an operation finds them
Snapshot == [player |-> player, enemies |-> enemies, score |-> score,
             gameOver |-> gameOver, lastSpawnTime |-> lastSpawnTime]

GameIdle ==
    /\ player = NoBall
    /\ enemies = <<>>
    /\ score = 0
    /\ gameOver = FALSE
    /\ lastSpawnTime = 0
    /\ now = 0
    /\ nextId = 1
    /\ op = "none"
    /\ log = <<>>
    /\ fatal = NoFatal
    /\ before = [player |-> NoBall, enemies |-> <<>>, score |-> 0,
                 gameOver |-> FALSE, lastSpawnTime |-> 0]
    /\ steps = 0

\* new Game() up to the first frame: createPlayer(), spawnInitialEnemies()
GameInit ==
    /\ \E seed \in Seeds :
         /\ player = createPlayer(1)
         /\ enemies = spawnInitialEnemies(seed, 1)
    /\ score = 0
    /\ gameOver = FALSE
    /\ lastSpawnTime = 0
    /\ now = StartTime
    /\ nextId = 2 + NumBigEnemies + NumSmallEnemies
    /\ op = "init"
    /\ log = <<>>
    /\ fatal = NoFatal
    /\ before = Snapshot
    /\ steps = 0

\* animate(): one frame
Animate ==
    /\ steps < MaxSteps
    /\ \E in \in FrameInputs :
         LET t == now + in.dt
         IN  /\ now' = t
             /\ IF gameOver
                THEN /\ log' = <<>>
                     /\ UNCHANGED <<player, enemies, score, gameOver, lastSpawnTime,
                                    nextId, fatal>>
                ELSE \E p2 \in {BallUpdate(handleInput(player, in.ctl))} :
                     \E es2 \in {[k \in DOMAIN enemies |-> BallUpdate(enemies[k])]} :
                     \E es3 \in {updateAI(p2, es2, in.rnd)} :
                     \E col \in {checkCollisions(p2, es3, score)} :
                     \E sp \in {spawnEnemies(col.enemies, col.score, lastSpawnTime, t,
                                            in.rnd, nextId)} :
                         /\ player' = col.player
                         /\ enemies' = sp.enemies
                         /\ score' = col.score
                         /\ gameOver' = col.gameOver
                         /\ lastSpawnTime' = sp.lastSpawnTime
                         /\ nextId' = sp.nextId
                         /\ log' = col.log \o sp.log
                         /\ fatal' = col.fatal
    /\ op' = "animate"
    /\ before' = Snapshot
    /\ steps' = steps + 1

RestartKeepsEnemies ==
    /\ steps < MaxSteps
    /\ steps > 0
    /\ \E seed \in Seeds :
         /\ player' = createPlayer(nextId)
         /\ enemies' = enemies \o spawnInitialEnemies(seed, nextId)
    /\ score' = 0
    /\ gameOver' = FALSE
    /\ lastSpawnTime' = 0
    /\ nextId' = nextId + 1 + NumBigEnemies + NumSmallEnemies
    /\ op' = "restart"
    /\ log' = <<>>
    /\ fatal' = NoFatal
    /\ before' = Snapshot
    /\ steps' = steps + 1
    /\ UNCHANGED now

\* restart(), the click handler of the restart button, between two frames
Restart ==
    /\ steps < MaxSteps
    /\ steps > 0
    /\ \E seed \in Seeds :
         /\ player' = createPlayer(nextId)
         /\ enemies' = spawnInitialEnemies(seed, nextId)
    /\ score' = 0
    /\ gameOver' = FALSE
    /\ lastSpawnTime' = 0
    /\ nextId' = nextId + 1 + NumBigEnemies + NumSmallEnemies
    /\ op' = "restart"
    /\ log' = <<>>
    /\ fatal' = NoFatal
    /\ before' = Snapshot
    /\ steps' = steps + 1
    /\ UNCHANGED now

----------------------------------------------------------------------------
(* Values of the variables a specification does not use *)

NoResult == [kind |-> "none", self |-> NoBall, other |-> NoBall,
             selfEats |-> FALSE, otherEats |-> FALSE, points |-> 0]

BallIdle == ba = NoBall /\ bb = NoBall /\ bout = NoResult /\ bsteps = 0

----------------------------------------------------------------------------
(* Ball.canEat and Ball.eat applied to two balls of any radii *)

\* the largest whole radius drawn
MaxBallRadius == 15
\* how many Ball methods are applied in a row
MaxBallSteps == 3

\* radius^3 of the balls drawn: whole radii k, and the radii between them
\* whose cube is k^3 + k
BallVolumes ==
    {k * k * k : k \in 1..MaxBallRadius} \cup {k * k * k + k : k \in 1..MaxBallRadius}

BallInit ==
    /\ \E v \in BallVolumes : ba = NewBall(1, 0, 0, 0, v * VolDen, FALSE)
    /\ \E v \in BallVolumes : bb = NewBall(2, 0, 0, 0, v * VolDen, FALSE)
    /\ bout = NoResult
    /\ bsteps = 0

\* a.canEat(b) and b.canEat(a)
BallCanEat ==
    /\ bsteps < MaxBallSteps
    /\ bout' = [kind |-> "canEat", self |-> ba, other |-> bb,
                selfEats |-> canEat(ba, bb), otherEats |-> canEat(bb, ba),
                points |-> 0]
    /\ bsteps' = bsteps + 1
    /\ UNCHANGED <<ba, bb>>

\* a.eat(b), called as the game calls it: only when a.canEat(b)
BallEat ==
    /\ bsteps < MaxBallSteps
    /\ canEat(ba, bb)
    /\ LET res == eat(ba, bb)
       IN  /\ ba' = res.self
           /\ bb' = res.other
           /\ bout' = [kind |-> "eat", self |-> ba, other |-> bb,
                       selfEats |-> TRUE, otherEats |-> FALSE,
                       points |-> res.points]
    /\ bsteps' = bsteps + 1

----------------------------------------------------------------------------
(* PowerUp, PowerUpManager (src/src/PowerUp.js) and PowerUpEffects          *)
(* (src/unnamed/part_002)                                                    *)

\* the catalog of the manager, in its order
powerUpTypes == <<"speed", "size", "pacman", "saturn", "earth", "tryagain">>

\* the skin types addPowerUp and its filter name
SkinTypes == {"pacman", "saturn", "earth"}

\* the default duration of a PowerUp, in ms
DefaultDuration == 30000

\* new PowerUp(type): startTime = Date.now(), active, a fresh id
NewPowerUp(type, t, id) ==
    [type |-> type, duration |-> DefaultDuration, startTime |-> t,
     active |-> TRUE, id |-> id]

\* isExpired() at time t
isExpired(p, t) == t - p.startTime >= p.duration

RECURSIVE Filter(_, _)
\* Array.prototype.filter for a predicate given as the set of elements kept
Filter(list, keep) ==
    IF list = <<>> THEN <<>>
    ELSE IF Head(list) \in keep THEN <<Head(list)>> \o Filter(Tail(list), keep)
         ELSE Filter(Tail(list), keep)

Elems(list) == {list[i] : i \in DOMAIN list}

AddPowerUpKeepsSkins(list, type, t, id) ==
    IF type = "tryagain" THEN [list |-> list, result |-> 0]
    ELSE [list |-> Append(list, NewPowerUp(type, t, id)), result |-> id]

\* addPowerUp(type) on the list, at time t, id the new power-up's id: the
\* list afterwards and the id of the power-up returned (0 for null)
addPowerUp(list, type, t, id) ==
    IF type = "tryagain" THEN [list |-> list, result |-> 0]
    ELSE LET kept == IF type \in SkinTypes
                     THEN Filter(list, {p \in Elems(list) : p.type \notin SkinTypes})
                     ELSE list
         IN  [list |-> Append(kept, NewPowerUp(type, t, id)), result |-> id]

UpdateClearsAll(list, t) == <<>>

\* update() at time t: the power-ups that have not expired, in order
update(list, t) == Filter(list, {p \in Elems(list) : ~isExpired(p, t)})

\* update() at time t: the power-ups it filters out, active set to false
updateRemoved(list, t) ==
    LET gone == Filter(list, {p \in Elems(list) : isExpired(p, t)})
    IN  [k \in DOMAIN gone |-> [gone[k] EXCEPT !.active = FALSE]]

\* the weights of the catalog entries, and the fraction of a weight the
\* draws of Math.random() * totalWeight are given in
Weights == [i \in DOMAIN powerUpTypes |-> 1]
WeightScale == 10

RECURSIVE SpinLoopOneTooFar(_, _)
SpinLoopOneTooFar(random, i) ==
    IF i > Len(powerUpTypes) THEN "none"
    ELSE IF random <= 0 THEN powerUpTypes[i]
    ELSE SpinLoopOneTooFar(random - Weights[i] * WeightScale, i + 1)

SpinForPowerUpOneTooFar(random) == SpinLoopOneTooFar(random, 1)

RECURSIVE SpinLoop(_, _)
\* the loop of spinForPowerUp from entry i on, and the return after it
SpinLoop(random, i) ==
    IF i > Len(powerUpTypes) THEN powerUpTypes[Len(powerUpTypes)]
    ELSE IF random - Weights[i] * WeightScale <= 0 THEN powerUpTypes[i]
    ELSE SpinLoop(random - Weights[i] * WeightScale, i + 1)

\* spinForPowerUp() with random = Math.random() * totalWeight: the type of
\* the entry returned
spinForPowerUp(random) == SpinLoop(random, 1)

\* PowerUpEffects.setSpeedBoost(multiplier): the speedMultiplier afterwards
setSpeedBoost(current, multiplier) == multiplier

\* how many manager and effect operations are applied
MaxPuSteps == 4

\* the steps of the wall clock between operations, in ms
ClockSteps == {DefaultDuration \div 3, DefaultDuration + 1000}

\* the multipliers granted
Multipliers == {1, 2, 3}

NoPuOp == [op |-> "none", type |-> "none", before |-> <<>>, result |-> 0,
           multiplier |-> 0, speedBefore |-> 1]

PuIdle ==
    /\ activePowerUps = <<>>
    /\ speedMultiplier = 1
    /\ puClock = 0
    /\ puNextId = 1
    /\ puLast = NoPuOp
    /\ puSteps = 0
    /\ puRemoved = <<>>

\* new PowerUpManager(), new PowerUpEffects()
PuInit == PuIdle

PuAdd ==
    /\ puSteps < MaxPuSteps
    /\ \E i \in DOMAIN powerUpTypes :
         LET type == powerUpTypes[i]
             res == addPowerUp(activePowerUps, type, puClock, puNextId)
         IN  /\ activePowerUps' = res.list
             /\ puNextId' = IF res.result = 0 THEN puNextId ELSE puNextId + 1
             /\ puLast' = [NoPuOp EXCEPT !.op = "addPowerUp", !.type = type,
                                         !.before = activePowerUps,
                                         !.result = res.result,
                                         !.speedBefore = speedMultiplier]
    /\ puSteps' = puSteps + 1
    /\ UNCHANGED <<speedMultiplier, puClock, puRemoved>>

\* spinForPowerUp() for some draw of Math.random()
PuSpin ==
    /\ puSteps < MaxPuSteps
    /\ \E random \in 0..(Len(powerUpTypes) * WeightScale - 1) :
         puLast' = [NoPuOp EXCEPT !.op = "spinForPowerUp",
                                  !.type = spinForPowerUp(random),
                                  !.result = random,
                                  !.before = activePowerUps,
                                  !.speedBefore = speedMultiplier]
    /\ puSteps' = puSteps + 1
    /\ UNCHANGED <<activePowerUps, speedMultiplier, puClock, puNextId, puRemoved>>

PuUpdate ==
    /\ puSteps < MaxPuSteps
    /\ activePowerUps' = update(activePowerUps, puClock)
    /\ puLast' = [NoPuOp EXCEPT !.op = "update", !.before = activePowerUps,
                                !.speedBefore = speedMultiplier]
    /\ puRemoved' = puRemoved \o updateRemoved(activePowerUps, puClock)
    /\ puSteps' = puSteps + 1
    /\ UNCHANGED <<speedMultiplier, puClock, puNextId>>

PuSetSpeedBoost ==
    /\ puSteps < MaxPuSteps
    /\ \E m \in Multipliers :
         /\ speedMultiplier' = setSpeedBoost(speedMultiplier, m)
         /\ puLast' = [NoPuOp EXCEPT !.op = "setSpeedBoost", !.multiplier = m,
                                     !.before = activePowerUps,
                                     !.speedBefore = speedMultiplier]
    /\ puSteps' = puSteps + 1
    /\ UNCHANGED <<activePowerUps, puClock, puNextId, puRemoved>>

\* time passes
PuClockTick ==
    /\ puSteps < MaxPuSteps
    /\ \E d \in ClockSteps : puClock' = puClock + d
    /\ puLast' = [NoPuOp EXCEPT !.op = "clock", !.before = activePowerUps,
                                !.speedBefore = speedMultiplier]
    /\ puSteps' = puSteps + 1
    /\ UNCHANGED <<activePowerUps, speedMultiplier, puNextId, puRemoved>>

----------------------------------------------------------------------------
(* Ball.applyForce, Ball.setSpeedBoost and Ball.update applied to one ball   *)
(* near the boundary of the arena                                           *)

\* how many Ball methods are applied in a row to the moving ball
MaxMotionSteps == 4

\* the coordinates the ball starts from, in position units: at the boundary,
\* just inside it, and at the centre
MotionStarts ==
    {-250 * PosScale, 2 - 250 * PosScale, 0, 250 * PosScale - 2, 250 * PosScale}

\* the forces applied: handleInput's 2.0 along an axis
MotionForces ==
    {<<2 * PosScale, 0>>, <<-2 * PosScale, 0>>, <<0, 2 * PosScale>>, <<0, -2 * PosScale>>}

MotionInit ==
    /\ \E x \in MotionStarts, z \in MotionStarts, isPlayer \in BOOLEAN :
         ba = NewBall(1, x, 0, z,
                      PlayerRadius * PlayerRadius * PlayerRadius * VolDen, isPlayer)
    /\ bb = NoBall
    /\ bout = NoResult
    /\ bsteps = 0

\* ball.applyForce(force)
MotionApplyForce ==
    /\ bsteps < MaxMotionSteps
    /\ \E f \in MotionForces : ba' = applyForce(ba, f[1], 0, f[2])
    /\ bout' = [NoResult EXCEPT !.kind = "applyForce", !.self = ba]
    /\ bsteps' = bsteps + 1
    /\ UNCHANGED bb

\* ball.setSpeedBoost(multiplier)
MotionSetSpeedBoost ==
    /\ bsteps < MaxMotionSteps
    /\ \E m \in Multipliers :
         ba' = [ba EXCEPT !.speedMultiplier = setSpeedBoost(ba.speedMultiplier, m)]
    /\ bout' = [NoResult EXCEPT !.kind = "setSpeedBoost", !.self = ba]
    /\ bsteps' = bsteps + 1
    /\ UNCHANGED bb

\* ball.update(1 / 60): the ball's part of one tick
MotionUpdate ==
    /\ bsteps < MaxMotionSteps
    /\ ba' = BallUpdate(ba)
    /\ bout' = [NoResult EXCEPT !.kind = "update", !.self = ba]
    /\ bsteps' = bsteps + 1
    /\ UNCHANGED bb

----------------------------------------------------------------------------
(* calculateSpawnRate and calculateMaxEnemies applied to two scores *)

\* the scores drawn run up to (MaxScoreSteps + 1) * 100 - 1, past the scores
\* at which both functions stop changing
MaxScoreSteps == 110

\* the scores drawn: the first and the last score of every hundred
Scores == {k * 100 + j : k \in 0..MaxScoreSteps, j \in {0, 99}}

NoUtilResult == [fn |-> "none", r1 |-> 0, r2 |-> 0]

UtilIdle == us1 = 0 /\ us2 = 0 /\ uout = NoUtilResult

\* two scores s1 <= s2
UtilInit ==
    /\ \E s1 \in Scores, s2 \in Scores : s1 <= s2 /\ us1 = s1 /\ us2 = s2
    /\ uout = NoUtilResult

UtilSpawnRate ==
    /\ uout' = [fn |-> "calculateSpawnRate",
                r1 |-> calculateSpawnRate(us1), r2 |-> calculateSpawnRate(us2)]
    /\ UNCHANGED <<us1, us2>>

UtilMaxEnemies ==
    /\ uout' = [fn |-> "calculateMaxEnemies",
                r1 |-> calculateMaxEnemies(us1), r2 |-> calculateMaxEnemies(us2)]
    /\ UNCHANGED <<us1, us2>>

----------------------------------------------------------------------------
(* Game.spawnEnemies applied to games with a population near the cap *)

\* how many times spawnEnemies is called in a row
MaxSpawnSteps == 2

\* the score and the number of enemies of the games drawn: populations at
\* and just below calculateMaxEnemies(score)
SpawnGames ==
    {[score |-> 0, n |-> 49], [score |-> 0, n |-> 50],
     [score |-> 150, n |-> 49], [score |-> 250, n |-> 50],
     [score |-> 250, n |-> 51], [score |-> 10000, n |-> 99],
     [score |-> 10000, n |-> 100]}

\* the ms since the last spawn: around the spawn rates 500, 1800 and 2000
SpawnGaps == {499, 500, 501, 1800, 1801, 2000, 2001}

\* where the player is, in world units
PlayerSpots == {<<0, 0>>, <<-60, 100>>}

\* n enemies, each as spawnEnemy makes them
SpawnPopulation(n) == [k \in 1..n |-> spawnEnemy(SpawnDraw(1, k + 1), k + 1)]

SpawnInit ==
    /\ \E g \in SpawnGames, gap \in SpawnGaps, spot \in PlayerSpots :
         /\ player = [createPlayer(1) EXCEPT !.x = spot[1] * PosScale,
                                             !.z = spot[2] * PosScale,
                                             !.y = RadiusPos(createPlayer(1))]
         /\ enemies = SpawnPopulation(g.n)
         /\ score = g.score
         /\ lastSpawnTime = StartTime - gap
         /\ nextId = g.n + 2
    /\ gameOver = FALSE
    /\ now = StartTime
    /\ op = "init"
    /\ log = <<>>
    /\ fatal = NoFatal
    /\ before = Snapshot
    /\ steps = 0

\* spawnEnemies(), some ms later
SpawnTick ==
    /\ steps < MaxSpawnSteps
    /\ \E dt \in {0, 1}, rnd \in {1, 2} :
         \E sp \in {spawnEnemies(enemies, score, lastSpawnTime, now + dt, rnd, nextId)} :
             /\ now' = now + dt
             /\ enemies' = sp.enemies
             /\ lastSpawnTime' = sp.lastSpawnTime
             /\ nextId' = sp.nextId
             /\ log' = sp.log
    /\ op' = "spawnEnemies"
    /\ before' = Snapshot
    /\ steps' = steps + 1
    /\ UNCHANGED <<player, score, gameOver, fatal>>

----------------------------------------------------------------------------
(* Game.updateAI applied to a player and six enemies in any order *)

\* how many times updateAI is called in a row
MaxAISteps == 2

\* a ball resting on the ground at (x, z), in world units, of volume vol
AIBall(id, x, z, vol) ==
    [NewBall(id, x * PosScale, 0, z * PosScale, vol * VolDen, FALSE)
        EXCEPT !.y = RadiusTenths(vol * VolDen) * (PosScale \div 10)]

\* the six enemies: two next to the player, a hunter with two targets of
\* nearly the same radius on either side, and one on its own
AIPopulation ==
    <<AIBall(2, 40, 0, 125), AIBall(3, 45, 0, 64),
      AIBall(4, 0, -150, 1000), AIBall(5, 0, -100, 125),
      AIBall(6, 0, -210, 126), AIBall(7, 200, 200, 8)>>

\* the orders this.enemies can hold them in
AIOrders == Permutations(DOMAIN AIPopulation)

\* the streams of Math.random() draws a call of updateAI is given
AIStreams == {1, 2}

\* the id of allBalls[i], 0 for null
IdOf(allBalls, i) == IF i = 0 THEN 0 ELSE allBalls[i].id

AIInit ==
    /\ player = [createPlayer(1) EXCEPT !.y = RadiusPos(createPlayer(1))]
    /\ \E order \in AIOrders :
         enemies = [k \in DOMAIN AIPopulation |-> AIPopulation[order[k]]]
    /\ score = 0
    /\ gameOver = FALSE
    /\ lastSpawnTime = StartTime
    /\ now = StartTime
    /\ nextId = 8
    /\ op = "init"
    /\ log = <<>>
    /\ fatal = NoFatal
    /\ before = Snapshot
    /\ steps = 0

\* updateAI(); log keeps, for each enemy, the nearestThreat and idealTarget
\* the call computed for it
AIUpdate ==
    /\ steps < MaxAISteps
    /\ \E rnd \in AIStreams : enemies' = updateAI(player, enemies, rnd)
    /\ \E allBalls \in {<<player>> \o enemies} :
         log' = [k \in DOMAIN enemies |->
                    [kind |-> "decision", self |-> enemies[k].id,
                     nearestThreat |-> IdOf(allBalls, findNearestThreat(enemies[k], allBalls)),
                     idealTarget |-> IdOf(allBalls, findIdealTarget(enemies[k], allBalls))]]
    /\ op' = "updateAI"
    /\ before' = Snapshot
    /\ steps' = steps + 1
    /\ UNCHANGED <<player, score, gameOver, lastSpawnTime, now, nextId, fatal>>

----------------------------------------------------------------------------
(* The size of one ball: Ball.setSizeBoost, Ball.grow and the size animation *)
(* of Ball.update (PowerUpEffects, src/unnamed/part_002).  Here a radius is  *)
(* fixed point, RadScale units per world unit, and a multiplier is given in  *)
(* tenths.  The position and velocity that update also moves are those of    *)
(* BallUpdate; the size fields neither read nor write them.                  *)

RadScale == 1000

\* null, for targetRadius and the baseRadius of PowerUpEffects
NoRadius == -1

\* the size fields of new Ball(.., radius, ..) with its new PowerUpEffects;
\* mass is (massNum / massDen)^3
SizeBall(radius) ==
    [radius |-> radius, baseRadius |-> radius, massNum |-> 1, massDen |-> 1,
     sizeMultiplier |-> 10, targetRadius |-> NoRadius, fxBaseRadius |-> NoRadius]

\* Ball.setSizeBoost(multiplier): PowerUpEffects.setSizeBoost(multiplier,
\* this.radius, this.baseRadius)
setSizeBoost(ball, multiplier) ==
    IF multiplier = 10
    THEN IF 10 * ball.radius > 11 * ball.baseRadius
         THEN [ball EXCEPT !.targetRadius = ball.baseRadius, !.sizeMultiplier = multiplier]
         ELSE [ball EXCEPT !.sizeMultiplier = multiplier]
    ELSE [ball EXCEPT !.fxBaseRadius = ball.radius,
                      !.targetRadius = (ball.radius * multiplier) \div 10,
                      !.sizeMultiplier = multiplier]

UpdateSizeAnimationOvershoots(ball) ==
    IF ball.targetRadius # NoRadius
       /\ Abs(ball.radius - ball.targetRadius) > RadScale \div 100
    THEN LET diff == ball.targetRadius - ball.radius
             growth == TruncDiv(diff * 21, 10)
         IN  [ball EXCEPT !.radius = ball.radius + growth]
    ELSE ball

\* updateSizeAnimation(ball), as Ball.update calls it: growthSpeed is 0.1 and
\* the tolerance 0.01
updateSizeAnimation(ball) ==
    IF ball.targetRadius # NoRadius
       /\ Abs(ball.radius - ball.targetRadius) > RadScale \div 100
    THEN LET diff == ball.targetRadius - ball.radius
             growth == TruncDiv(diff, 10)
         IN  [ball EXCEPT !.radius = ball.radius + growth]
    ELSE ball

\* Ball.grow(amount) on the size fields
growBy(ball, amount) ==
    [ball EXCEPT !.radius = ball.radius + amount,
                 !.massNum = ball.radius + amount, !.massDen = ball.baseRadius,
                 !.baseRadius = ball.radius + amount,
                 !.fxBaseRadius = ball.radius + amount]

\* how many calls of setSizeBoost and grow a run holds
MaxSizeOps == 2

\* the radius of the ball constructed
SizeRadii == {2 * RadScale}

\* the multipliers granted, in tenths: the revert and a boost
SizeMultipliers == {10, 15}

\* the amounts a consumption grows a ball by
GrowAmounts == {RadScale \div 2}

\* what the last operation was given and found; floor is the radius the last
\* grow led to while no setSizeBoost(1) followed it
NoSizeOp == [kind |-> "none", self |-> SizeBall(0), multiplier |-> 0, amount |-> 0,
             floor |-> NoRadius]

SizeInit ==
    /\ \E r \in SizeRadii : ba = SizeBall(r)
    /\ bb = NoBall
    /\ bout = NoSizeOp
    /\ bsteps = 0

SizeSetSizeBoost ==
    /\ bsteps < MaxSizeOps
    /\ \E mult \in SizeMultipliers :
         /\ ba' = setSizeBoost(ba, mult)
         /\ bout' = [kind |-> "setSizeBoost", self |-> ba, multiplier |-> mult,
                     amount |-> 0,
                     floor |-> IF mult = 10 THEN NoRadius ELSE bout.floor]
    /\ bsteps' = bsteps + 1
    /\ UNCHANGED bb

SizeGrow ==
    /\ bsteps < MaxSizeOps
    /\ \E amount \in GrowAmounts :
         /\ ba' = growBy(ba, amount)
         /\ bout' = [kind |-> "grow", self |-> ba, multiplier |-> 0,
                     amount |-> amount, floor |-> ba.radius + amount]
    /\ bsteps' = bsteps + 1
    /\ UNCHANGED bb

\* the size animation of one Ball.update
SizeUpdate ==
    /\ ba' = updateSizeAnimation(ba)
    /\ bout' = [kind |-> "update", self |-> ba, multiplier |-> 0, amount |-> 0,
                floor |-> bout.floor]
    /\ UNCHANGED <<bb, bsteps>>

----------------------------------------------------------------------------
(* Ball.applyForce and Ball.setSpeedBoost applied to the player and to an   *)
(* enemy that move near their speed limits                                  *)

\* how many Ball methods are applied in a row to the two balls
MaxForceSteps == 3

\* the horizontal velocities the balls start with, in position units per s,
\* each kept where it is within the ball's limit
ForceVelocities ==
    {<<0, 0>>, <<1950, 0>>, <<-1400, 1400>>, <<2950, 0>>, <<-2100, 2100>>,
     <<0, -5900>>, <<0, -8900>>}

\* the forces applied: handleInput's 2.0, seekTarget's 2.2 and avoidThreat's
\* 2.0 along a diagonal, and a draw of randomWalk
Forces ==
    {<<2 * PosScale, 0>>, <<0, -2 * PosScale>>, <<156, 156>>, <<-141, 141>>,
     <<-50, 37>>}

\* the speed squared of a ball
Speed2(ball) == ball.vx * ball.vx + ball.vy * ball.vy + ball.vz * ball.vz

NoForceOp == [kind |-> "none", self |-> NoBall, other |-> NoBall, fx |-> 0, fz |-> 0]

\* a player and an enemy, each moving as fast as some earlier applyForce
\* calls can leave it
ForceInit ==
    /\ \E mult \in Multipliers, va \in ForceVelocities, vb \in ForceVelocities :
         /\ ba = [createPlayer(1) EXCEPT !.vx = va[1], !.vz = va[2],
                                         !.speedMultiplier = mult]
         /\ bb = [NewBall(2, 0, 0, 0, VolDen, FALSE) EXCEPT !.vx = vb[1], !.vz = vb[2],
                                                           !.speedMultiplier = mult]
         /\ Speed2(ba) <= (30 * PosScale * mult) * (30 * PosScale * mult)
         /\ Speed2(bb) <= (20 * PosScale * mult) * (20 * PosScale * mult)
    /\ bout = NoForceOp
    /\ bsteps = 0

\* applyForce(force) on both balls
ForceApply ==
    /\ bsteps < MaxForceSteps
    /\ \E f \in Forces :
         /\ ba' = applyForce(ba, f[1], 0, f[2])
         /\ bb' = applyForce(bb, f[1], 0, f[2])
         /\ bout' = [kind |-> "applyForce", self |-> ba, other |-> bb,
                     fx |-> f[1], fz |-> f[2]]
    /\ bsteps' = bsteps + 1

\* setSpeedBoost(multiplier) on both balls
ForceSetSpeedBoost ==
    /\ bsteps < MaxForceSteps
    /\ \E mult \in Multipliers :
         /\ ba' = [ba EXCEPT !.speedMultiplier = setSpeedBoost(ba.speedMultiplier, mult)]
         /\ bb' = [bb EXCEPT !.speedMultiplier = setSpeedBoost(bb.speedMultiplier, mult)]
    /\ bout' = [kind |-> "setSpeedBoost", self |-> ba, other |-> bb, fx |-> 0, fz |-> 0]
    /\ bsteps' = bsteps + 1

----------------------------------------------------------------------------
(* The game from a crowded arena: frames and restarts of a game whose       *)
(* population is at or just below calculateMaxEnemies(score)                *)

\* how many frames and restarts a run from a crowded arena holds
MaxCrowdedSteps == 2

\* the score and the number of enemies of the crowded games
CrowdedGames ==
    {[score |-> 0, n |-> 50], [score |-> 150, n |-> 49],
     [score |-> 250, n |-> 51], [score |-> 400, n |-> 52]}

\* the player of a game with this score: 50 points and half the volume of a
\* ball of radius 5 for each enemy eaten
CrowdedPlayer(sc) ==
    LET eaten == sc \div 50
        r3 == PlayerRadius * PlayerRadius * PlayerRadius * VolDen
              + eaten * ((125 * VolDen) \div 2)
        p == [createPlayer(1) EXCEPT !.r3 = r3, !.base3 = r3,
                                     !.x = -60 * PosScale, !.z = 100 * PosScale]
    IN  [p EXCEPT !.y = RadiusPos(p)]

CrowdedInit ==
    /\ \E g \in CrowdedGames :
         /\ player = CrowdedPlayer(g.score)
         /\ enemies = SpawnPopulation(g.n)
         /\ score = g.score
         /\ nextId = g.n + 2
    /\ gameOver = FALSE
    /\ lastSpawnTime = StartTime - 1000
    /\ now = StartTime
    /\ op = "init"
    /\ log = <<>>
    /\ fatal = NoFatal
    /\ before = Snapshot
    /\ steps = 0

----------------------------------------------------------------------------
(* Specifications *)

\* the game
Init == GameInit /\ BallIdle /\ PuIdle /\ UtilIdle

Next ==
    \/ Animate /\ UNCHANGED <<ballVars, puVars, utilVars>>
    \/ Restart /\ UNCHANGED <<ballVars, puVars, utilVars>>

Spec == Init /\ [][Next]_vars

\* Ball.canEat and Ball.eat on balls of any radii
InitBall == BallInit /\ GameIdle /\ PuIdle /\ UtilIdle

NextBall ==
    \/ BallCanEat /\ UNCHANGED <<gameVars, puVars, utilVars>>
    \/ BallEat /\ UNCHANGED <<gameVars, puVars, utilVars>>

SpecBall == InitBall /\ [][NextBall]_vars

\* one ball moving near the boundary of the arena
InitMotion == MotionInit /\ GameIdle /\ PuIdle /\ UtilIdle

NextMotion ==
    \/ MotionApplyForce /\ UNCHANGED <<gameVars, puVars, utilVars>>
    \/ MotionSetSpeedBoost /\ UNCHANGED <<gameVars, puVars, utilVars>>
    \/ MotionUpdate /\ UNCHANGED <<gameVars, puVars, utilVars>>

SpecMotion == InitMotion /\ [][NextMotion]_vars

\* the functions of utils.js on scores
InitUtils == UtilInit /\ GameIdle /\ BallIdle /\ PuIdle

NextUtils ==
    \/ UtilSpawnRate /\ UNCHANGED <<gameVars, ballVars, puVars>>
    \/ UtilMaxEnemies /\ UNCHANGED <<gameVars, ballVars, puVars>>

SpecUtils == InitUtils /\ [][NextUtils]_vars

\* spawn control near the cap
InitSpawn == SpawnInit /\ BallIdle /\ PuIdle /\ UtilIdle

NextSpawn == SpawnTick /\ UNCHANGED <<ballVars, puVars, utilVars>>

SpecSpawn == InitSpawn /\ [][NextSpawn]_vars

\* the AI decisions
InitAI == AIInit /\ BallIdle /\ PuIdle /\ UtilIdle

NextAI == AIUpdate /\ UNCHANGED <<ballVars, puVars, utilVars>>

SpecAI == InitAI /\ [][NextAI]_vars

\* the size of one ball
InitSize == SizeInit /\ GameIdle /\ PuIdle /\ UtilIdle

NextSize ==
    \/ SizeSetSizeBoost /\ UNCHANGED <<gameVars, puVars, utilVars>>
    \/ SizeGrow /\ UNCHANGED <<gameVars, puVars, utilVars>>
    \/ SizeUpdate /\ UNCHANGED <<gameVars, puVars, utilVars>>

SpecSize == InitSize /\ [][NextSize]_vars

\* the same where the frame loop keeps calling update
SpecSizeFair == SpecSize /\ WF_vars(SizeUpdate /\ UNCHANGED <<gameVars, puVars, utilVars>>)

\* two balls near their speed limits
InitForce == ForceInit /\ GameIdle /\ PuIdle /\ UtilIdle

NextForce ==
    \/ ForceApply /\ UNCHANGED <<gameVars, puVars, utilVars>>
    \/ ForceSetSpeedBoost /\ UNCHANGED <<gameVars, puVars, utilVars>>

SpecForce == InitForce /\ [][NextForce]_vars

\* the game from a crowded arena
InitCrowded == CrowdedInit /\ BallIdle /\ PuIdle /\ UtilIdle

NextCrowded ==
    \/ steps < MaxCrowdedSteps /\ Animate /\ UNCHANGED <<ballVars, puVars, utilVars>>
    \/ steps < MaxCrowdedSteps /\ Restart /\ UNCHANGED <<ballVars, puVars, utilVars>>

SpecCrowded == InitCrowded /\ [][NextCrowded]_vars

\* the power-up manager and effects
InitPowerUp == PuInit /\ GameIdle /\ BallIdle /\ UtilIdle

NextPowerUp ==
    \/ PuAdd /\ UNCHANGED <<gameVars, ballVars, utilVars>>
    \/ PuSpin /\ UNCHANGED <<gameVars, ballVars, utilVars>>
    \/ PuUpdate /\ UNCHANGED <<gameVars, ballVars, utilVars>>
    \/ PuSetSpeedBoost /\ UNCHANGED <<gameVars, ballVars, utilVars>>
    \/ PuClockTick /\ UNCHANGED <<gameVars, ballVars, utilVars>>

SpecPowerUp == InitPowerUp /\ [][NextPowerUp]_vars

----------------------------------------------------------------------------
(* What the properties below read from the record of the last operation *)

\* the ids of a list of balls
Ids(es) == {es[k].id : k \in DOMAIN es}

\* p = floor(radius * 10) for the ball of volume r3
IsTenthsOf(p, r3) ==
    /\ p >= 0
    /\ p * p * p * (VolDen \div 8) <= 125 * r3
    /\ 125 * r3 < (p + 1) * (p + 1) * (p + 1) * (VolDen \div 8)

\* the comparisons of the last collision pass in which a ball was eaten, the
\* ones of the player among them, and the ones that found equal radii
EatKinds == {"playerEat", "enemyEat"}
TieKinds == {"playerTie", "enemyTie"}
PlayerEats == SelectSeq(log, LAMBDA e : e.kind = "playerEat")

\* the ball with this id is eaten, or eats, in a comparison after the i-th
EatenAfter(id, i) ==
    \E j \in DOMAIN log : j > i /\ log[j].kind \in EatKinds /\ log[j].eaten = id
EatsAfter(id, i) ==
    \E j \in DOMAIN log : j > i /\ log[j].kind \in EatKinds /\ log[j].eater = id

\* a list of balls without their ids
StripIds(es) == [k \in DOMAIN es |-> [es[k] EXCEPT !.id = 0]]

----------------------------------------------------------------------------
(* The game: Spec *)

\* C1: in a collision pass, every collision of the player with a strictly
\* smaller enemy is resolved by the player eating it: the score grows by
\* exactly floor(enemy.radius * 10), the enemy leaves the enemy list, and the
\* player's radius^3 grows by half the enemy's radius^3 (each eat of a pass
\* starting from the radius the eat before it left).
C1_PlayerEatsSmallerEnemy ==
    op = "animate" =>
        LET eats == PlayerEats
            n == Len(eats)
        IN  /\ \A i \in DOMAIN log :
                 (log[i].kind = "playerTie" => log[i].eatenR3 >= log[i].eaterR3)
                 /\ (log[i].kind = "fatal" => log[i].eaterR3 >= log[i].eatenR3)
            /\ \A i \in DOMAIN eats :
                 /\ eats[i].eater = before.player.id
                 /\ eats[i].eatenR3 < eats[i].eaterR3
                 /\ IsTenthsOf(eats[i].points, eats[i].eatenR3)
                 /\ eats[i].eaten \in Ids(before.enemies)
                 /\ eats[i].eaten \notin Ids(enemies)
                 /\ IF i = 1 THEN eats[i].eaterR3 = before.player.r3
                    ELSE 2 * eats[i].eaterR3
                           = 2 * eats[i - 1].eaterR3 + eats[i - 1].eatenR3
            /\ score = before.score + SumPoints(eats)
            /\ IF n = 0 THEN player.r3 = before.player.r3
               ELSE 2 * player.r3 = 2 * eats[n].eaterR3 + eats[n].eatenR3

\* C1 witness: the player of radius 15 has eaten an enemy of radius 7 for 70
\* points, and nothing else in that pass
C1_Witness ==
    /\ op = "animate"
    /\ Len(PlayerEats) = 1
    /\ PlayerEats[1].eaterR3 = 15 * 15 * 15 * VolDen
    /\ PlayerEats[1].eatenR3 = 7 * 7 * 7 * VolDen
    /\ score = before.score + 70
    /\ 2 * player.r3 = (2 * 15 * 15 * 15 + 7 * 7 * 7) * VolDen

\* C2: once a fatal collision has set gameOver, the player, the enemies and
\* the score are what they were at the instant of that collision, the rest of
\* its tick included, until restart().
C2_FrozenFromFatalCollision ==
    gameOver => /\ player = fatal.player
                /\ enemies = fatal.enemies
                /\ score = fatal.score

\* C2 witness: the tick of the fatal collision has gone on to spawn an enemy
C2_SpawnAfterFatalCollision ==
    /\ op = "animate"
    /\ gameOver /\ ~before.gameOver
    /\ log # <<>> /\ log[Len(log)].kind = "spawn"
    /\ Len(enemies) = Len(fatal.enemies) + 1
    /\ SubSeq(enemies, 1, Len(fatal.enemies)) = fatal.enemies

\* C3: gameOver is true only after a collision pass found an enemy colliding
\* with the player and of strictly larger radius; it becomes true in no other
\* operation, and once true only restart() makes it false.
C3_GameOverOnlyByFatalCollision ==
    /\ gameOver =>
         /\ fatal.hit
         /\ fatal.player.isPlayer
         /\ fatal.enemy \in Elems(fatal.enemies)
         /\ isColliding(fatal.player, fatal.enemy)
         /\ fatal.enemy.r3 > fatal.player.r3
    /\ (gameOver /\ ~before.gameOver) =>
         /\ op = "animate"
         /\ \E i \in DOMAIN log : /\ log[i].kind = "fatal"
                                  /\ log[i].eaten = player.id
                                  /\ log[i].eaterR3 > log[i].eatenR3
    /\ (before.gameOver /\ ~gameOver) => op = "restart"
    /\ (before.gameOver /\ op # "restart") => gameOver

\* C3 witness: a frame has just ended the game, the player having grown
\* before the enemy that can eat it was reached
C3_Witness ==
    /\ op = "animate"
    /\ gameOver /\ ~before.gameOver
    /\ fatal.hit
    /\ fatal.player.r3 > before.player.r3
    /\ fatal.enemy.r3 > fatal.player.r3

\* C4: restart(), from GameOver or from a running game, leaves a fresh start:
\* no ball of before, score 0, gameOver false, the spawn timer 0, a new player
\* of radius 15 at rest at the origin, and exactly the initial population: 4
\* enemies of radius in [16, 25] and 40 of radius in [1, 8].
C4_RestartIsFreshStart ==
    op = "restart" =>
        LET old == {before.player.id} \cup Ids(before.enemies)
            big == {k \in DOMAIN enemies :
                      /\ 16 * 16 * 16 * VolDen <= enemies[k].r3
                      /\ enemies[k].r3 <= 25 * 25 * 25 * VolDen}
            small == {k \in DOMAIN enemies :
                        /\ VolDen <= enemies[k].r3
                        /\ enemies[k].r3 <= 8 * 8 * 8 * VolDen}
        IN  /\ score = 0
            /\ ~gameOver
            /\ lastSpawnTime = 0
            /\ player.isPlayer
            /\ player.r3 = 15 * 15 * 15 * VolDen
            /\ player.x = 0 /\ player.y = 0 /\ player.z = 0
            /\ player.vx = 0 /\ player.vy = 0 /\ player.vz = 0
            /\ player.id \notin old
            /\ Ids(enemies) \cap old = {}
            /\ player.id \notin Ids(enemies)
            /\ Len(enemies) = 44
            /\ Cardinality(Ids(enemies)) = 44
            /\ Cardinality(big) = 4
            /\ Cardinality(small) = 40
            /\ \E seed \in Seeds :
                 StripIds(enemies) = StripIds(spawnInitialEnemies(seed, 0))

\* C4 witness: restart() was called in GameOver, with a score, a player that
\* had grown and a population that was no longer an initial one
C4_Witness ==
    /\ op = "restart"
    /\ before.gameOver
    /\ before.score > 0
    /\ before.player.r3 > player.r3
    /\ StripIds(before.enemies) # StripIds(enemies)
    /\ \A seed \in Seeds :
         StripIds(before.enemies) # StripIds(spawnInitialEnemies(seed, 0))

\* C5: outside restart() the score never decreases, and it changes only in a
\* frame whose collision pass had the player eat an enemy: enemies eating
\* enemies, a spawn, the AI, integration and a fatal collision leave it alone.
C5_ScoreOnlyGrowsByPlayerEats ==
    /\ op = "init" => score = 0
    /\ op = "animate" =>
         /\ score >= before.score
         /\ score # before.score => PlayerEats # <<>>
         /\ PlayerEats = <<>> => score = before.score
         /\ score - before.score
              = SumPoints(SelectSeq(log, LAMBDA e : e.eater = before.player.id
                                                     /\ e.kind \in EatKinds))

\* C5 witness: a frame in which an enemy ate an enemy and an enemy was
\* spawned, and the score it found stayed
C5_Witness ==
    /\ op = "animate"
    /\ \E i \in DOMAIN log : log[i].kind = "enemyEat" /\ log[i].points > 0
    /\ \E i \in DOMAIN log : log[i].kind = "spawn"
    /\ PlayerEats = <<>>
    /\ before.score > 0
    /\ score = before.score

\* C8: a collision of two balls of equal radius changes nothing.  Every
\* collision the pass finds between equal radii is resolved as a tie; the two
\* enemies of a tie stay in the enemy list with their radius (unless a later
\* comparison of the pass has one of them eat or be eaten); a tie of the player
\* removes no enemy, scores nothing and does not end the game.
C8_EqualRadiiChangeNothing ==
    op = "animate" =>
        /\ \A i \in DOMAIN log :
             (log[i].kind # "spawn" /\ log[i].eaterR3 = log[i].eatenR3)
                 => log[i].kind \in TieKinds
        /\ \A i \in DOMAIN log : log[i].kind \in TieKinds =>
             /\ log[i].eaterR3 = log[i].eatenR3
             /\ log[i].points = 0
             /\ \A id \in {log[i].eater, log[i].eaten} \ {player.id} :
                  ~EatenAfter(id, i) =>
                      \E k \in DOMAIN enemies :
                          /\ enemies[k].id = id
                          /\ ~EatsAfter(id, i) => enemies[k].r3 = log[i].eatenR3
             /\ (log[i].kind = "playerTie" /\ ~EatsAfter(player.id, i)) =>
                   player.r3 = log[i].eaterR3
        /\ (\A i \in DOMAIN log : log[i].kind \in TieKinds \cup {"spawn"}) =>
             /\ score = before.score
             /\ gameOver = before.gameOver
             /\ Ids(before.enemies) \subseteq Ids(enemies)

\* C8 witness: the player has met an enemy of its own radius and two enemies
\* of equal radius have met; all of them are still there and the game goes on
C8_Witness ==
    /\ op = "animate"
    /\ ~gameOver
    /\ \E i \in DOMAIN log :
         /\ log[i].kind = "playerTie"
         /\ log[i].eaten \in Ids(enemies)
    /\ \E i \in DOMAIN log :
         /\ log[i].kind = "enemyTie"
         /\ {log[i].eater, log[i].eaten} \subseteq Ids(enemies)

----------------------------------------------------------------------------
(* Ball.canEat and Ball.eat: SpecBall *)

\* C6: for two balls a and b, a.canEat(b) and b.canEat(a) are never both
\* true; when the radii differ exactly one is true, the one of the larger
\* ball; when the radii are equal both are false.
C6_CanEatIsStrict ==
    bout.kind = "canEat" =>
        /\ ~(bout.selfEats /\ bout.otherEats)
        /\ bout.self.r3 > bout.other.r3 => (bout.selfEats /\ ~bout.otherEats)
        /\ bout.self.r3 < bout.other.r3 => (bout.otherEats /\ ~bout.selfEats)
        /\ bout.self.r3 = bout.other.r3 => (~bout.selfEats /\ ~bout.otherEats)

\* C6 witness: canEat was asked both ways of two balls of the same radius,
\* not a whole one
C6_Witness ==
    /\ bout.kind = "canEat"
    /\ bout.self.r3 = bout.other.r3
    /\ bout.self.r3 = (5 * 5 * 5 + 5) * VolDen
    /\ ~bout.selfEats /\ ~bout.otherEats

\* C7: eat() by a ball of radius r1 of a ball of radius r2 < r1 leaves the
\* eater with newRadius^3 = r1^3 + r2^3 / 2, so that r1 < newRadius and
\* newRadius^3 < r1^3 + r2^3, returns floor(r2 * 10), and leaves the eaten
\* ball as it was.
C7_EatGainsHalfVolume ==
    bout.kind = "eat" =>
        /\ bout.other.r3 < bout.self.r3
        /\ bout.other.r3 > 0
        /\ 2 * ba.r3 = 2 * bout.self.r3 + bout.other.r3
        /\ ba.r3 > bout.self.r3
        /\ ba.r3 < bout.self.r3 + bout.other.r3
        /\ IsTenthsOf(bout.points, bout.other.r3)
        /\ bb = bout.other
        /\ [ba EXCEPT !.r3 = 0, !.base3 = 0, !.massNum = 0, !.massDen = 0]
             = [bout.self EXCEPT !.r3 = 0, !.base3 = 0, !.massNum = 0, !.massDen = 0]

\* C7 witness: radius 15 has eaten radius 6: 60 points, and
\* newRadius^3 = 15^3 + 6^3 / 2
C7_Witness ==
    /\ bout.kind = "eat"
    /\ bout.self.r3 = 15 * 15 * 15 * VolDen
    /\ bout.other.r3 = 6 * 6 * 6 * VolDen
    /\ bout.points = 60
    /\ ba.r3 = (15 * 15 * 15 + 108) * VolDen

\* C14: in every state the mass of a ball is (radius / baseRadius)^3 for its
\* current radius and current baseRadius, after eat() and grow() too (volumes
\* compared in units of 1/2, which every volume here is a multiple of).
C14_MassFromCurrentRadii ==
    \A ball \in {ba, bb} :
        IF ball.massDen = 1 THEN ball.massNum * ball.base3 = ball.r3
        ELSE (ball.massNum \div (VolDen \div 2)) * (ball.base3 \div (VolDen \div 2))
               = (ball.massDen \div (VolDen \div 2)) * (ball.r3 \div (VolDen \div 2))

\* C14 witness: after eat() the ball's baseRadius is its radius, and its mass
\* is (radius / old baseRadius)^3 > 1
C14_StaleMassAfterEat ==
    /\ bout.kind = "eat"
    /\ ba.base3 = ba.r3
    /\ ba.massDen = bout.self.base3
    /\ ba.massNum = ba.r3
    /\ ba.massNum > ba.massDen

----------------------------------------------------------------------------
(* The power-up manager and effects: SpecPowerUp *)

\* the places of the list holding a power-up of one of these types
Holding(list, types) == {i \in DOMAIN list : list[i].type \in types}

\* C9: after any addPowerUp and update calls the list holds at most one skin
\* (pacman, saturn, earth); granting a skin leaves exactly one, the one just
\* granted, timed from the grant, and leaves the speed and size power-ups as
\* they were.
C9_AtMostOneSkin ==
    /\ Cardinality(Holding(activePowerUps, SkinTypes)) <= 1
    /\ (puLast.op = "addPowerUp" /\ puLast.type \in SkinTypes) =>
         LET n == Len(activePowerUps)
         IN  /\ n >= 1
             /\ Holding(activePowerUps, SkinTypes) = {n}
             /\ activePowerUps[n].type = puLast.type
             /\ activePowerUps[n].id = puLast.result
             /\ activePowerUps[n].startTime = puClock
             /\ activePowerUps[n].id \notin Ids(puLast.before)
             /\ SubSeq(activePowerUps, 1, n - 1)
                  = SelectSeq(puLast.before, LAMBDA p : p.type \notin SkinTypes)

\* C9 witness: a skin was granted while an older skin and a speed power-up
\* were active
C9_Witness ==
    /\ puLast.op = "addPowerUp"
    /\ puLast.type \in SkinTypes
    /\ \E i \in Holding(puLast.before, SkinTypes) :
         puLast.before[i].startTime < puClock
    /\ Holding(puLast.before, {"speed", "size"}) # {}
    /\ Len(activePowerUps) = Len(puLast.before)

\* C10: a grant replaces an active power-up of its kind: the list holds at
\* most one speed and at most one size power-up, the one granted last with a
\* timer started at its grant, and the speed multiplier is the one granted
\* last.
C10_SameKindReplaced ==
    /\ Cardinality(Holding(activePowerUps, {"speed"})) <= 1
    /\ Cardinality(Holding(activePowerUps, {"size"})) <= 1
    /\ (puLast.op = "addPowerUp" /\ puLast.type \in {"speed", "size"}) =>
         /\ activePowerUps # <<>>
         /\ activePowerUps[Len(activePowerUps)].id = puLast.result
         /\ activePowerUps[Len(activePowerUps)].startTime = puClock
    /\ puLast.op = "setSpeedBoost" => speedMultiplier = puLast.multiplier

\* C10 witness: speed was granted while a speed power-up was active, and both
\* are in the list, the older with the timer of its own grant
C10_TwoSpeedPowerUps ==
    /\ puLast.op = "addPowerUp"
    /\ puLast.type = "speed"
    /\ Cardinality(Holding(activePowerUps, {"speed"})) = 2
    /\ \E i \in Holding(activePowerUps, {"speed"}) :
         activePowerUps[i].startTime < puClock

\* C11: when a timed effect has expired, the next update() of the manager
\* reverts the agent: once a speed power-up has run out and been removed, the
\* speed multiplier is 1 again.
C11_ExpiryRevertsSpeed ==
    (/\ puLast.op = "update"
     /\ \E i \in Holding(puLast.before, {"speed"}) :
            isExpired(puLast.before[i], puClock)
     /\ Holding(activePowerUps, {"speed"}) = {})
        => speedMultiplier = 1

\* C11 witness: speed was granted with multiplier 2, 31 s passed, update()
\* removed the power-up, and the multiplier is still 2
C11_ExpiredSpeedStillBoosts ==
    /\ puLast.op = "update"
    /\ Len(puLast.before) = 1
    /\ puLast.before[1].type = "speed"
    /\ puClock - puLast.before[1].startTime = DefaultDuration + 1000
    /\ activePowerUps = <<>>
    /\ puLast.speedBefore = 2
    /\ speedMultiplier = 2

----------------------------------------------------------------------------
(* One ball near the boundary: SpecMotion *)

\* the velocity component v after the damping of a tick
DampedBy(ball, v) == TruncDiv(v * (IF ball.isPlayer THEN 97 ELSE 95), 100)

\* the tick from pre to post handles the axis with position pos and velocity
\* vel as the reflection at the boundary asks: if the ball is past L, or its
\* motion carries it past L, it ends at L with the damped velocity turned
\* around and scaled by 0.8, and otherwise the velocity is the damped one
ReflectedOn(pos0, vel0, pos1, vel1) ==
    LET L == 250 * PosScale
        moved == pos0 + TruncDiv(vel0, 60)
    IN  /\ (pos0 > L \/ moved > L) => (pos1 = L /\ vel1 = -TruncDiv(vel0 * 8, 10))
        /\ (pos0 < -L \/ moved < -L) => (pos1 = -L /\ vel1 = -TruncDiv(vel0 * 8, 10))
        /\ (Abs(pos0) <= L /\ Abs(moved) <= L) => vel1 = vel0

\* C12: a ball whose motion carries it past +L = 250 on x ends that tick at
\* x = L with velocity.x turned around and scaled by 0.8 from its damped
\* value, velocity.z being left as damped; the same at -L and on z.
C12_ReflectedAtBoundary ==
    bout.kind = "update" =>
        /\ ReflectedOn(bout.self.x, DampedBy(bout.self, bout.self.vx), ba.x, ba.vx)
        /\ ReflectedOn(bout.self.z, DampedBy(bout.self, bout.self.vz), ba.z, ba.vz)

\* C12 witness: the tick found the ball past +L on x and turned its velocity
\* around, scaled by 0.8, and the ball ends the tick inside L, not at L
C12_ReflectedButNotAtBoundary ==
    /\ bout.kind = "update"
    /\ bout.self.x > 250 * PosScale
    /\ bout.self.vx > 60
    /\ ba.vx = -TruncDiv(DampedBy(bout.self, bout.self.vx) * 8, 10)
    /\ ba.vz = DampedBy(bout.self, bout.self.vz)
    /\ ba.x < 250 * PosScale

\* C13: at the end of every tick the ball is inside the arena: |x| <= 250 and
\* |z| <= 250.
C13_InsideArena ==
    bout.kind = "update" =>
        /\ Abs(ba.x) <= 250 * PosScale
        /\ Abs(ba.z) <= 250 * PosScale

\* C13 witness: a tick took a ball from inside the arena to x > 250
C13_PastBoundaryAfterTick ==
    /\ bout.kind = "update"
    /\ Abs(bout.self.x) <= 250 * PosScale
    /\ Abs(bout.self.z) <= 250 * PosScale
    /\ ba.x > 250 * PosScale

----------------------------------------------------------------------------
(* utils.js on scores: SpecUtils *)

\* C15: calculateMaxEnemies is non-decreasing in the score and bounded: for
\* scores 0 <= s1 <= s2, 50 <= calculateMaxEnemies(s1) <=
\* calculateMaxEnemies(s2) <= 100.
C15_MaxEnemiesMonotoneBounded ==
    uout.fn = "calculateMaxEnemies" =>
        /\ 0 <= us1 /\ us1 <= us2
        /\ 50 <= uout.r1
        /\ uout.r1 <= uout.r2
        /\ uout.r2 <= 100

\* C15 witness: a score below 200 gives 50, one that would give more than
\* 100 without the cap gives 100
C15_Witness ==
    /\ uout.fn = "calculateMaxEnemies"
    /\ us1 < 200 /\ uout.r1 = 50
    /\ us2 >= 10200 /\ uout.r2 = 100

\* C16: the spawn cooldown is clamped: for scores 0 <= s1 <= s2,
\* 500 <= calculateSpawnRate(s2) <= calculateSpawnRate(s1) <= 2000; no score
\* gives a zero or negative cooldown.
C16_SpawnRateClamped ==
    uout.fn = "calculateSpawnRate" =>
        /\ 0 <= us1 /\ us1 <= us2
        /\ 500 <= uout.r2
        /\ uout.r2 <= uout.r1
        /\ uout.r1 <= 2000

\* C16 witness: a score below 100 gives 2000, one at which 2000 minus 100 per
\* hundred is negative gives 500
C16_Witness ==
    /\ uout.fn = "calculateSpawnRate"
    /\ us1 < 100 /\ uout.r1 = 2000
    /\ us2 >= 2100 /\ uout.r2 = 500

----------------------------------------------------------------------------
(* The game, continued: Spec *)

\* the enemy of this id as the last operation found it
BeforeEnemy(id) == CHOOSE e \in Elems(before.enemies) : e.id = id

\* the enemies of now that the last operation found already
Survivors == {k \in DOMAIN enemies : enemies[k].id \in Ids(before.enemies)}

\* C17: a tick runs AI decision, then integration, then collisions: the force
\* chosen for an enemy in a tick is in its velocity when its position is
\* integrated in that tick, so the step its position took in the tick is
\* the step of the velocity it ends the tick with.
C17_ForceAppliedBeforeIntegration ==
    (op = "animate" /\ ~before.gameOver) =>
        \A k \in Survivors :
            /\ enemies[k].x - BeforeEnemy(enemies[k].id).x = TruncDiv(enemies[k].vx, 60)
            /\ enemies[k].z - BeforeEnemy(enemies[k].id).z = TruncDiv(enemies[k].vz, 60)

\* C17 witness: a tick gave an enemy at rest a steering force; the enemy ends
\* the tick with that velocity and at the place where the tick found it
C17_ForceAfterIntegration ==
    /\ op = "animate"
    /\ ~before.gameOver
    /\ \E k \in Survivors :
         LET pre == BeforeEnemy(enemies[k].id)
         IN  /\ pre.vx = 0 /\ pre.vz = 0
             /\ Abs(enemies[k].vx) >= 60
             /\ enemies[k].x = pre.x
             /\ enemies[k].z = pre.z

\* the comparisons of the last collision pass that ate, and the ids eaten and
\* spawned in the last frame
EatIdx == {i \in DOMAIN log : log[i].kind \in EatKinds}
EatenIds == {log[i].eaten : i \in EatIdx}
SpawnedIds == {log[i].eater : i \in {j \in DOMAIN log : log[j].kind = "spawn"}}

RECURSIVE GainedBy(_, _)
\* twice the volume the ball id gained by its eats among the first n
\* comparisons of the pass
GainedBy(id, n) ==
    IF n = 0 THEN 0
    ELSE GainedBy(id, n - 1)
           + (IF log[n].kind \in EatKinds /\ log[n].eater = id THEN log[n].eatenR3 ELSE 0)

\* C18: in the enemy-vs-enemy pass the larger of two colliding enemies of
\* different radii eats the smaller, at the radii the pass has given them by
\* then; an enemy that was removed takes part in no later comparison, none is
\* removed twice, the survivors are in the list exactly once, and the list
\* shrinks by exactly the number of eats.
C18_EnemyPassRemovesOnce ==
    op = "animate" =>
        /\ \A i \in DOMAIN log : log[i].kind = "enemyEat" =>
             /\ log[i].eaterR3 > log[i].eatenR3
             /\ {log[i].eater, log[i].eaten} \subseteq Ids(before.enemies)
             /\ 2 * log[i].eaterR3
                  = 2 * BeforeEnemy(log[i].eater).r3 + GainedBy(log[i].eater, i - 1)
             /\ 2 * log[i].eatenR3
                  = 2 * BeforeEnemy(log[i].eaten).r3 + GainedBy(log[i].eaten, i - 1)
        /\ \A i \in DOMAIN log : log[i].kind = "enemyTie" =>
             log[i].eaterR3 = log[i].eatenR3
        /\ \A i \in EatIdx : \A j \in DOMAIN log :
             (j > i /\ log[j].kind # "spawn") =>
                 log[i].eaten \notin {log[j].eater, log[j].eaten}
        /\ Cardinality(EatenIds) = Cardinality(EatIdx)
        /\ Cardinality(Ids(enemies)) = Len(enemies)
        /\ Ids(enemies) = (Ids(before.enemies) \ EatenIds) \cup SpawnedIds
        /\ Len(enemies)
             = Len(before.enemies) - Cardinality(EatIdx) + Cardinality(SpawnedIds)
        /\ \A k \in Survivors :
             2 * enemies[k].r3
               = 2 * BeforeEnemy(enemies[k].id).r3 + GainedBy(enemies[k].id, Len(log))

\* C18 witness: in one pass an enemy ate an enemy and was then eaten by a
\* third, and other pairs of enemies met as well
C18_Witness ==
    /\ op = "animate"
    /\ \E i, j \in DOMAIN log :
         /\ i < j
         /\ log[i].kind = "enemyEat" /\ log[j].kind = "enemyEat"
         /\ log[i].eater = log[j].eaten
         /\ log[j].eatenR3 > BeforeEnemy(log[j].eaten).r3
    /\ Cardinality({i \in DOMAIN log : log[i].kind = "enemyEat"}) >= 3
    /\ \E i \in DOMAIN log : log[i].kind = "enemyTie"

----------------------------------------------------------------------------
(* Spawn control: SpecSpawn *)

\* the spawns of the last operation
SpawnIdx == {i \in DOMAIN log : log[i].kind = "spawn"}

\* C19: spawn control admits at most one enemy per call, and exactly when the
\* time since the last spawn is strictly above calculateSpawnRate(score) and
\* the number of enemies strictly below calculateMaxEnemies(score); a spawn
\* sets the last-spawn time to now, and without one the enemies and the
\* last-spawn time stay.
C19_SpawnControl ==
    op = "spawnEnemies" =>
        LET n0 == Len(before.enemies)
            due == /\ now - before.lastSpawnTime > calculateSpawnRate(score)
                   /\ n0 < calculateMaxEnemies(score)
        IN  /\ Cardinality(SpawnIdx) <= 1
            /\ Len(enemies) <= n0 + 1
            /\ due <=> SpawnIdx # {}
            /\ due =>
                 /\ Len(enemies) = n0 + 1
                 /\ SubSeq(enemies, 1, n0) = before.enemies
                 /\ enemies[n0 + 1].id \notin Ids(before.enemies) \cup {player.id}
                 /\ lastSpawnTime = now
            /\ ~due =>
                 /\ enemies = before.enemies
                 /\ lastSpawnTime = before.lastSpawnTime

\* C19 witness: 2000 ms after the last spawn, at score 0 and with 49
\* enemies, nothing is spawned: the time is not above the rate
C19_Witness ==
    /\ op = "spawnEnemies"
    /\ score = 0
    /\ Len(before.enemies) = 49
    /\ now - before.lastSpawnTime = 2000
    /\ enemies = before.enemies
    /\ lastSpawnTime = before.lastSpawnTime

\* C20: wherever the player is, a newly spawned enemy is never within 20 of
\* it on both x and z.
C20_SpawnAwayFromPlayer ==
    \A i \in SpawnIdx : \A k \in DOMAIN enemies :
        enemies[k].id = log[i].eater =>
            ~(/\ Abs(enemies[k].x - player.x) < 20 * PosScale
              /\ Abs(enemies[k].z - player.z) < 20 * PosScale)

\* C20 witness: with the player at (-60, 100) an enemy was spawned at
\* (-66, 96)
C20_SpawnNextToPlayer ==
    /\ op = "spawnEnemies"
    /\ player.x = -60 * PosScale /\ player.z = 100 * PosScale
    /\ SpawnIdx # {}
    /\ enemies[Len(enemies)].x = -66 * PosScale
    /\ enemies[Len(enemies)].z = 96 * PosScale

----------------------------------------------------------------------------
(* The AI decisions: SpecAI *)

\* the balls updateAI decided on
AllBefore == Elems(<<before.player>> \o before.enemies)

\* the balls within the threat radius of e that can eat it
Threats(e) ==
    {b \in AllBefore : b.id # e.id /\ canEat(b, e)
                       /\ Dist2(e, b) < threatRange * threatRange}

\* the balls within the target radius of e that it can eat
Targets(e) ==
    {b \in AllBefore : b.id # e.id /\ canEat(e, b)
                       /\ Dist2(e, b) <= idealTargetRange * idealTargetRange}

\* the velocity of a ball
Velocity(b) == <<b.vx, b.vy, b.vz>>

\* C21: an enemy with a threat in range is pushed away from it, whatever
\* it could eat; with no threat and a target it is pushed toward a target;
\* with neither it gets at most a random horizontal impulse; each enemy gets
\* one force at most and the player none.
C21_FleeHuntWander ==
    op = "updateAI" =>
        /\ player = before.player
        /\ Len(enemies) = Len(before.enemies)
        /\ \A k \in DOMAIN enemies :
             LET e0 == before.enemies[k]
                 e1 == enemies[k]
             IN  /\ e1 = [e0 EXCEPT !.vx = e1.vx, !.vy = e1.vy, !.vz = e1.vz]
                 /\ Threats(e0) # {} =>
                      \E t \in Threats(e0) :
                          /\ \A b \in Threats(e0) : Dist2(e0, t) <= Dist2(e0, b)
                          /\ e1 = avoidThreat(e0, t)
                 /\ Threats(e0) = {} /\ Targets(e0) # {} =>
                      \E t \in Targets(e0) : e1 = seekTarget(e0, t)
                 /\ Threats(e0) = {} /\ Targets(e0) = {} =>
                      /\ e1.vy = e0.vy
                      /\ 2 * Abs(e1.vx - e0.vx) <= randomForce
                      /\ 2 * Abs(e1.vz - e0.vz) <= randomForce

\* C21 witness: in one call an enemy with a threat and a target in range
\* was pushed away from the threat and not toward the target, another was
\* pushed toward its target, a third got a random impulse and a fourth
\* nothing
C21_Witness ==
    /\ op = "updateAI"
    /\ \E k \in DOMAIN enemies :
         /\ Threats(before.enemies[k]) # {} /\ Targets(before.enemies[k]) # {}
         /\ Velocity(enemies[k]) # Velocity(before.enemies[k])
         /\ \A t \in Targets(before.enemies[k]) :
                enemies[k] # seekTarget(before.enemies[k], t)
    /\ \E k \in DOMAIN enemies :
         /\ Threats(before.enemies[k]) = {} /\ Targets(before.enemies[k]) # {}
         /\ Velocity(enemies[k]) # Velocity(before.enemies[k])
    /\ \E k, l \in DOMAIN enemies :
         /\ Threats(before.enemies[k]) = {} /\ Targets(before.enemies[k]) = {}
         /\ Threats(before.enemies[l]) = {} /\ Targets(before.enemies[l]) = {}
         /\ Velocity(enemies[k]) # Velocity(before.enemies[k])
         /\ Velocity(enemies[l]) = Velocity(before.enemies[l])

\* the decision updateAI took for the enemy of this id
DecisionOf(id) == CHOOSE d \in Elems(log) : d.self = id

\* two radii within the tie epsilon 0.1 of each other
WithinEpsilon(a, b) == RadiusTenths(a.r3) = RadiusTenths(b.r3)

\* the in-range eatable balls of e within the epsilon of the largest of them
LargestTargets(e) ==
    {b \in Targets(e) : \E top \in Targets(e) :
        /\ \A c \in Targets(e) : c.r3 <= top.r3
        /\ WithinEpsilon(b, top)}

\* C22: findIdealTarget returns null exactly when nothing eatable is within
\* the target radius; otherwise, whatever the order of the balls, it returns
\* an eatable ball in range whose radius is within 0.1 of the largest eatable
\* radius in range and which is the nearest of the balls that are.
C22_IdealTargetLargestThenNearest ==
    op = "updateAI" =>
        \A k \in DOMAIN before.enemies :
            LET e == before.enemies[k]
                found == DecisionOf(e.id).idealTarget
            IN  /\ found = 0 <=> Targets(e) = {}
                /\ found # 0 =>
                     \E t \in LargestTargets(e) :
                         /\ t.id = found
                         /\ \A b \in LargestTargets(e) : Dist2(e, t) <= Dist2(e, b)

\* C22 witness: the hunter of radius 10 has the targets of volume 125 at
\* distance 50 and of volume 126 at distance 60, listed in this order, and
\* findIdealTarget returned the farther one
C22_FartherOfTwoEqualTargets ==
    /\ op = "updateAI"
    /\ \E i, j \in DOMAIN before.enemies :
         /\ i < j
         /\ before.enemies[i].id = 5 /\ before.enemies[j].id = 6
         /\ WithinEpsilon(before.enemies[i], before.enemies[j])
         /\ {before.enemies[i], before.enemies[j]} \subseteq Targets(AIPopulation[3])
         /\ Dist2(AIPopulation[3], before.enemies[i]) < Dist2(AIPopulation[3], before.enemies[j])
    /\ DecisionOf(4).idealTarget = 6

----------------------------------------------------------------------------
(* The size of one ball: SpecSize, SpecSizeFair *)

\* C23: setSizeBoost(1) on a ball whose radius is more than 1.1 times its
\* baseRadius makes the baseRadius the size target; every other call makes
\* the current radius the ball's baseRadius and radius * multiplier the
\* size target.
C23_SizeGrant ==
    bout.kind = "setSizeBoost" =>
        IF bout.multiplier = 10 /\ 10 * bout.self.radius > 11 * bout.self.baseRadius
        THEN ba.targetRadius = bout.self.baseRadius
        ELSE /\ ba.baseRadius = bout.self.radius
             /\ ba.targetRadius = (bout.self.radius * bout.multiplier) \div 10

\* C23 witness: a boost granted while the radius was away from the ball's
\* baseRadius left that baseRadius as it was; the radius went to the
\* baseRadius of the effects only
C23_BoostKeepsBaseRadius ==
    /\ bout.kind = "setSizeBoost"
    /\ bout.multiplier # 10
    /\ bout.self.radius # bout.self.baseRadius
    /\ ba.baseRadius = bout.self.baseRadius
    /\ ba.fxBaseRadius = bout.self.radius
    /\ ba.targetRadius = (bout.self.radius * bout.multiplier) \div 10

\* a tick of the size animation found a target it was not yet within 0.01 of
Animating(ball) ==
    /\ ball.targetRadius # NoRadius
    /\ Abs(ball.radius - ball.targetRadius) > RadScale \div 100

\* C24: a tick of the animation moves the radius by a tenth of its distance
\* to the target, toward the target and never past it, and keeps it
\* positive; within 0.01 of the target a tick changes nothing; and once a
\* target is set the radius comes within 0.01 of it after finitely many
\* ticks.
C24_AnimationConverges ==
    /\ [](bout.kind = "update" =>
            LET r0 == bout.self.radius
                target == bout.self.targetRadius
            IN  /\ ba.radius > 0
                /\ Animating(bout.self) =>
                     /\ ba.radius - r0 = TruncDiv(target - r0, 10)
                     /\ ba.radius # r0
                     /\ r0 < target => r0 < ba.radius /\ ba.radius < target
                     /\ r0 > target => r0 > ba.radius /\ ba.radius > target
                /\ ~Animating(bout.self) => ba.radius = r0)
    /\ [](ba.targetRadius # NoRadius => <>[](~Animating(ba)))

\* C24 witness: an update found the ball within 0.01 of a target it had been
\* more than one world unit below, and left the radius alone
C24_Witness ==
    /\ bout.kind = "update"
    /\ ba.sizeMultiplier = 15
    /\ ba.targetRadius = 3 * RadScale
    /\ ~Animating(bout.self)
    /\ ba.radius = bout.self.radius
    /\ ba.radius < ba.targetRadius

\* C29: after a consumption, and until a revert setSizeBoost(1) is asked
\* for, no tick brings the radius below the radius the consumption led to,
\* whether a boost was granted before and whether its animation was over.
C29_GrowthNeverUndone ==
    bout.floor # NoRadius => ba.radius >= bout.floor

\* C29 witness: a ball boosted to 1.5 times its radius ate after the
\* animation had brought it near the target, and with the boost still on an
\* update shrank it below the radius it had after eating
C29_ShrunkAfterEating ==
    /\ bout.kind = "update"
    /\ bout.floor # NoRadius
    /\ ba.sizeMultiplier = 15
    /\ bout.self.radius = bout.floor
    /\ ba.targetRadius < bout.floor
    /\ ba.radius < bout.floor

----------------------------------------------------------------------------
(* The power-up manager, continued: SpecPowerUp *)

\* the place of the power-up of this id in the list, 0 if it is not there
PlaceOf(list, id) ==
    IF id \in Ids(list) THEN CHOOSE i \in DOMAIN list : list[i].id = id ELSE 0

\* C25: a power-up that is expired stays expired as the clock advances; an
\* update removes exactly the expired power-ups and marks them inactive,
\* keeps the others in their order, and a removed power-up is never in the
\* active list again.
C25_ExpiryIsPermanent ==
    /\ [][\A p \in Elems(activePowerUps) \cup Elems(puRemoved) :
            /\ puClock' >= puClock
            /\ isExpired(p, puClock) => isExpired(p, puClock')]_vars
    /\ [](puLast.op = "update" =>
            /\ \A p \in Elems(puLast.before) :
                 IF isExpired(p, puClock)
                 THEN /\ p.id \notin Ids(activePowerUps)
                      /\ [p EXCEPT !.active = FALSE] \in Elems(puRemoved)
                 ELSE p \in Elems(activePowerUps)
            /\ Elems(activePowerUps) \subseteq Elems(puLast.before)
            /\ \A i, j \in DOMAIN activePowerUps :
                 i < j => PlaceOf(puLast.before, activePowerUps[i].id)
                            < PlaceOf(puLast.before, activePowerUps[j].id))
    /\ [](\A g \in Elems(puRemoved) :
            /\ ~g.active
            /\ isExpired(g, puClock)
            /\ g.id \notin Ids(activePowerUps))
    /\ [](\A p \in Elems(activePowerUps) : p.active)

\* C25 witness: an update removed an expired power-up that stood before one
\* that had not expired, and kept that one
C25_Witness ==
    /\ puLast.op = "update"
    /\ Len(puLast.before) = 2
    /\ isExpired(puLast.before[1], puClock)
    /\ ~isExpired(puLast.before[2], puClock)
    /\ activePowerUps = <<puLast.before[2]>>
    /\ puRemoved = <<[puLast.before[1] EXCEPT !.active = FALSE]>>

\* C27: spinForPowerUp returns an entry of the catalog whatever is drawn,
\* and addPowerUp('tryagain') returns null and leaves the active list as it
\* was.
C27_SpinAndTryAgain ==
    /\ puLast.op = "spinForPowerUp" => puLast.type \in Elems(powerUpTypes)
    /\ (puLast.op = "addPowerUp" /\ puLast.type = "tryagain") =>
         /\ puLast.result = 0
         /\ activePowerUps = puLast.before

\* C27 witness: addPowerUp('tryagain') was called while a skin and another
\* power-up were active, returned null and left both
C27_Witness ==
    /\ puLast.op = "addPowerUp"
    /\ puLast.type = "tryagain"
    /\ puLast.result = 0
    /\ Holding(puLast.before, SkinTypes) # {}
    /\ Len(puLast.before) = 2
    /\ activePowerUps = puLast.before

----------------------------------------------------------------------------
(* Two balls near their speed limits: SpecForce *)

\* the velocity applyForce(fx, 0, fz) adds up before it limits the speed
Pushed(b0, fx, fz) ==
    [x |-> b0.vx + fx * b0.speedMultiplier, z |-> b0.vz + fz * b0.speedMultiplier]

\* b1 is b0 after a push that the limit cap cut: as fast as cap, to the
\* rounding of the position unit, and along the pushed velocity u
CutTo(b1, u, cap) ==
    /\ b1.vx * b1.vx + b1.vz * b1.vz > (cap - 3) * (cap - 3)
    /\ b1.vx * u.x + b1.vz * u.z > 0
    /\ Abs(b1.vx * u.z - b1.vz * u.x) <= Abs(u.x) + Abs(u.z)

\* the push of b0 went past the limit cap
PastLimit(b0, fx, fz, cap) ==
    LET u == Pushed(b0, fx, fz)
    IN  u.x * u.x + u.z * u.z > cap * cap

\* what applyForce made of b0
Limited(b0, b1, fx, fz, cap) ==
    LET u == Pushed(b0, fx, fz)
    IN  /\ Speed2(b1) <= cap * cap
        /\ b1.vy = b0.vy
        /\ IF u.x * u.x + u.z * u.z > cap * cap
           THEN CutTo(b1, u, cap)
           ELSE b1.vx = u.x /\ b1.vz = u.z

\* C26: after applyForce the speed is at most 30 times the speedMultiplier
\* for the player and 20 times for an enemy; a velocity that is cut keeps
\* its direction; and of a player and an enemy with the same multiplier
\* that are both cut, the player is left the faster.
C26_SpeedLimit ==
    bout.kind = "applyForce" =>
        /\ Limited(bout.self, ba, bout.fx, bout.fz, 30 * PosScale * ba.speedMultiplier)
        /\ Limited(bout.other, bb, bout.fx, bout.fz, 20 * PosScale * bb.speedMultiplier)
        /\ ba.speedMultiplier = bout.self.speedMultiplier
        /\ (PastLimit(bout.self, bout.fx, bout.fz, 30 * PosScale * ba.speedMultiplier)
            /\ PastLimit(bout.other, bout.fx, bout.fz, 20 * PosScale * bb.speedMultiplier))
           => Speed2(ba) > Speed2(bb)

\* C26 witness: a push along a diagonal was cut for the player and for the
\* enemy, at a speedMultiplier above 1
C26_Witness ==
    /\ bout.kind = "applyForce"
    /\ ba.speedMultiplier > 1
    /\ bout.fx # 0 /\ bout.fz # 0
    /\ ba.vx # 0 /\ ba.vz # 0
    /\ PastLimit(bout.self, bout.fx, bout.fz, 30 * PosScale * ba.speedMultiplier)
    /\ PastLimit(bout.other, bout.fx, bout.fz, 20 * PosScale * bb.speedMultiplier)

----------------------------------------------------------------------------
(* The game from a crowded arena: SpecCrowded *)

\* C28: whatever frames, consumptions and restarts happened, the enemies
\* number at most calculateMaxEnemies(score), and so at most 100.
C28_EnemiesWithinCap ==
    /\ Len(enemies) <= calculateMaxEnemies(score)
    /\ Len(enemies) <= 100

\* C28 witness: a frame found as many enemies as the cap allows and the
\* spawn rate long elapsed, and spawned nothing
C28_Witness ==
    /\ op = "animate"
    /\ ~before.gameOver
    /\ now - before.lastSpawnTime > calculateSpawnRate(score)
    /\ Len(enemies) = calculateMaxEnemies(score)
    /\ SpawnIdx = {}

----------------------------------------------------------------------------
(* The game, the initial population: Spec *)

\* the enemies that can eat the player and collide with it
FatalEnemies == {k \in DOMAIN enemies : canEat(enemies[k], player)
                                        /\ isColliding(player, enemies[k])}

\* C30: right after construction and after a restart no enemy that can eat
\* the player collides with it, the 4 big enemies included, wherever and
\* however large they were drawn.
C30_SafeStart ==
    op \in {"init", "restart"} => FatalEnemies = {}

\* C30 witness: after a restart the first big enemy, drawn at (30, 0) with
\* radius 20 and left there, overlaps the player of radius 15 at the origin
\* before anything has moved
C30_BigEnemyOnPlayerAtStart ==
    /\ op = "restart"
    /\ 1 \in FatalEnemies
    /\ 1 <= NumBigEnemies
    /\ enemies[1].x = 30 * PosScale /\ enemies[1].z = 0
    /\ <<player.x, player.z>> = <<0, 0>>
    /\ <<player.vx, player.vz, enemies[1].vx, enemies[1].vz>> = <<0, 0, 0, 0>>

====
